---- MODULE Spec2Model ----
(***************************************************************************)
(* Model of the two pipelines of technical-debt-predates-ai:               *)
(*   github_debt_analysis.py  (repository metrics pipeline)                *)
(*   commit_nlp_analysis.py   (commit signal pipeline)                     *)
(* Strings are sequences of one-character strings, so that matching,       *)
(* slicing and formatting are computed character by character.             *)
(***************************************************************************)
EXTENDS Integers, Sequences, FiniteSets, TLC

VARIABLES
  pc,           \* control position of the running function
  op, arg, res, \* the function called, its arguments, its return value
  commits,      \* fetch_commits: commits accumulated; analyze_repo: commits fetched
  page,         \* fetch_commits: next page number
  max_commits,  \* fetch_commits: its max_commits argument
  requests,     \* every HTTP GET issued so far, with what the caller did on the response
  analysis,     \* analyze_repo: the CommitAnalysis being built
  position,     \* analyze_repo: number of commits the for loop has consumed
  repos,        \* fetch_popular_repos: repositories accumulated
  query,        \* fetch_popular_repos: number of search queries finished
  files         \* main: repo_cache.json and the names of the output files written

vars == <<pc, op, arg, res, commits, page, max_commits, requests, analysis, position, repos, query, files>>

callVars == <<op, arg>>
fetchVars == <<commits, page, max_commits>>
analyzeVars == <<analysis, position>>
searchVars == <<repos, query>>

Null == [none |-> TRUE]

\* the variables of the functions that are not running
NoFetch == commits = <<>> /\ page = 0 /\ max_commits = 0
NoRequests == requests = <<>>
NoAnalysis == analysis = Null /\ position = 0
NoSearch == repos = <<>> /\ query = 0

\* ------------------------------------------------------------------------
\* Characters and the regular expressions of re.search(p, s, re.IGNORECASE)
\* ------------------------------------------------------------------------

UpperCase == <<"A", "B", "C", "D", "E", "F", "G", "H", "I", "J", "K", "L", "M",
               "N", "O", "P", "Q", "R", "S", "T", "U", "V", "W", "X", "Y", "Z">>

LowerCase == <<"a", "b", "c", "d", "e", "f", "g", "h", "i", "j", "k", "l", "m",
               "n", "o", "p", "q", "r", "s", "t", "u", "v", "w", "x", "y", "z">>

DigitChars == <<"0", "1", "2", "3", "4", "5", "6", "7", "8", "9">>

Range(s) == {s[i] : i \in DOMAIN s}

\* the lower-case letter of every upper-case letter
LowerOf == [c \in Range(UpperCase) |-> LowerCase[CHOOSE i \in DOMAIN UpperCase : UpperCase[i] = c]]

\* str.lower() on one character.
Lower(c) == IF c \in DOMAIN LowerOf THEN LowerOf[c] ELSE c

WordChars == Range(UpperCase) \cup Range(LowerCase) \cup Range(DigitChars) \cup {"_"}

\* \w of a str pattern: letters, digits and the underscore.
IsWordChar(c) == c \in WordChars

\* \s of a str pattern.
IsSpace(c) == c \in {" ", "\t", "\n", "\r", "\f"}

\* Pattern nodes.
Lit(c) == [k |-> "lit", c |-> c, a |-> <<>>]
WB == [k |-> "wb", c |-> "", a |-> <<>>]
\* the anchor ^ weakened to a word boundary
BOL_word_boundary == [k |-> "wb", c |-> "", a |-> <<>>]
BOL == [k |-> "bol", c |-> "", a |-> <<>>]
WS == [k |-> "ws", c |-> "", a |-> <<>>]
Cat(a) == [k |-> "cat", c |-> "", a |-> a]
Alt(a) == [k |-> "alt", c |-> "", a |-> a]
Opt(r) == [k |-> "opt", c |-> "", a |-> <<r>>]
Star(r) == [k |-> "star", c |-> "", a |-> <<r>>]
Plus(r) == [k |-> "plus", c |-> "", a |-> <<r>>]
Word(w) == Cat([i \in DOMAIN w |-> Lit(w[i])])

\* \b at position i (0-based, between s[i] and s[i+1]).
AtBoundary(s, i) ==
  LET before == i > 0 /\ IsWordChar(s[i])
      after == i < Len(s) /\ IsWordChar(s[i + 1])
  IN before # after

RECURSIVE Ends(_, _, _)
RECURSIVE EndsCat(_, _, _, _)
RECURSIVE Closure(_, _, _)

\* The positions where a match of r that starts at position i can end.
Ends(r, s, i) ==
  CASE r.k = "lit" -> IF i < Len(s) /\ Lower(s[i + 1]) = Lower(r.c) THEN {i + 1} ELSE {}
    [] r.k = "ws" -> IF i < Len(s) /\ IsSpace(s[i + 1]) THEN {i + 1} ELSE {}
    [] r.k = "wb" -> IF AtBoundary(s, i) THEN {i} ELSE {}
    [] r.k = "bol" -> IF i = 0 THEN {i} ELSE {}
    [] r.k = "cat" -> EndsCat(r.a, 1, s, {i})
    [] r.k = "alt" -> UNION {Ends(r.a[n], s, i) : n \in DOMAIN r.a}
    [] r.k = "opt" -> {i} \cup Ends(r.a[1], s, i)
    [] r.k = "star" -> Closure(r.a[1], s, {i})
    [] r.k = "plus" -> Closure(r.a[1], s, Ends(r.a[1], s, i))

EndsCat(a, n, s, from) ==
  IF n > Len(a) \/ from = {} THEN from
  ELSE EndsCat(a, n + 1, s, UNION {Ends(a[n], s, i) : i \in from})

Closure(r, s, from) ==
  LET more == UNION {Ends(r, s, i) : i \in from} \ from
  IN IF more = {} THEN from ELSE Closure(r, s, from \cup more)

\* re.search(pattern, s, re.IGNORECASE) is not None
Search(pattern, s) == \E i \in 0..Len(s) : Ends(pattern, s, i) # {}

\* DEBT_SIGNALS: signal name -> pattern, in table order.
DEBT_SIGNALS ==
  <<
    [name |-> "todo", pattern |-> Cat(<<WB, Word(<<"T", "O", "D", "O">>), WB>>)],
    [name |-> "fixme", pattern |-> Cat(<<WB, Word(<<"F", "I", "X", "M", "E">>), WB>>)],
    [name |-> "hack", pattern |-> Cat(<<WB, Word(<<"H", "A", "C", "K">>), WB>>)],
    [name |-> "xxx", pattern |-> Cat(<<WB, Word(<<"X", "X", "X">>), WB>>)],
    [name |-> "temporary", pattern |-> Cat(<<WB, Word(<<"t", "e", "m", "p", "o", "r", "a", "r">>), Alt(<<Lit("y"), Word(<<"i", "l", "y">>)>>), WB>>)],
    [name |-> "workaround", pattern |-> Cat(<<WB, Word(<<"w", "o", "r", "k", "a", "r", "o", "u", "n", "d">>), WB>>)],
    [name |-> "kludge", pattern |-> Cat(<<WB, Word(<<"k", "l", "u", "d", "g", "e">>), WB>>)],
    [name |-> "broken", pattern |-> Cat(<<WB, Word(<<"b", "r", "o", "k", "e", "n">>), WB>>)],
    [name |-> "ugly", pattern |-> Cat(<<WB, Word(<<"u", "g", "l", "y">>), WB>>)],
    [name |-> "dirty", pattern |-> Cat(<<WB, Word(<<"d", "i", "r", "t", "y">>), WB>>)],
    [name |-> "tech.debt", pattern |-> Cat(<<WB, Word(<<"t", "e", "c", "h">>), Opt(Word(<<"n", "i", "c", "a", "l">>)), Star(WS), Word(<<"d", "e", "b", "t">>), WB>>)]
  >>

\* BUG_SIGNALS: signal name -> pattern, in table order.
BUG_SIGNALS ==
  <<
    [name |-> "fix", pattern |-> Cat(<<WB, Word(<<"f", "i", "x">>), Opt(Cat(<<Lit("e"), Alt(<<Lit("s"), Lit("d")>>)>>)), WB>>)],
    [name |-> "bug", pattern |-> Cat(<<WB, Word(<<"b", "u", "g">>), WB>>)],
    [name |-> "issue", pattern |-> Cat(<<WB, Word(<<"i", "s", "s", "u", "e">>), WB>>)],
    [name |-> "patch", pattern |-> Cat(<<WB, Word(<<"p", "a", "t", "c", "h">>), WB>>)],
    [name |-> "hotfix", pattern |-> Cat(<<WB, Word(<<"h", "o", "t", "f", "i", "x">>), WB>>)],
    [name |-> "resolve", pattern |-> Cat(<<WB, Word(<<"r", "e", "s", "o", "l", "v">>), Alt(<<Cat(<<Lit("e"), Opt(Alt(<<Lit("s"), Lit("d")>>))>>), Word(<<"i", "n", "g">>)>>), WB>>)],
    [name |-> "repair", pattern |-> Cat(<<WB, Word(<<"r", "e", "p", "a", "i", "r">>), WB>>)]
  >>

\* REVERT_SIGNALS: signal name -> pattern, in table order.
REVERT_SIGNALS ==
  <<
    [name |-> "revert", pattern |-> Cat(<<WB, Word(<<"r", "e", "v", "e", "r", "t">>), WB>>)],
    [name |-> "undo", pattern |-> Cat(<<WB, Word(<<"u", "n", "d", "o">>), WB>>)],
    [name |-> "rollback", pattern |-> Cat(<<WB, Word(<<"r", "o", "l", "l", "b", "a", "c", "k">>), WB>>)],
    [name |-> "back.out", pattern |-> Cat(<<WB, Word(<<"b", "a", "c", "k">>), Opt(Alt(<<Word(<<"e", "d">>), Word(<<"i", "n", "g">>)>>)), Star(WS), Word(<<"o", "u", "t">>), WB>>)]
  >>

\* FRUSTRATION_SIGNALS: signal name -> pattern, in table order.
FRUSTRATION_SIGNALS ==
  <<
    [name |-> "finally", pattern |-> Cat(<<WB, Word(<<"f", "i", "n", "a", "l", "l", "y">>), WB>>)],
    [name |-> "stupid", pattern |-> Cat(<<WB, Word(<<"s", "t", "u", "p", "i", "d">>), WB>>)],
    [name |-> "wtf", pattern |-> Cat(<<WB, Word(<<"w", "t", "f">>), WB>>)],
    [name |-> "why", pattern |-> Cat(<<BOL, Word(<<"w", "h", "y">>), WB>>)],
    [name |-> "ugh", pattern |-> Cat(<<WB, Plus(Lit("u")), Lit("g"), Plus(Lit("h")), WB>>)],
    [name |-> "argh", pattern |-> Cat(<<WB, Plus(Lit("a")), Word(<<"r", "g">>), Plus(Lit("h")), WB>>)],
    [name |-> "damn", pattern |-> Cat(<<WB, Word(<<"d", "a", "m", "n">>), WB>>)],
    [name |-> "crap", pattern |-> Cat(<<WB, Word(<<"c", "r", "a", "p">>), WB>>)],
    [name |-> "cmon", pattern |-> Cat(<<WB, Lit("c"), Opt(Lit("'")), Word(<<"m", "o", "n">>), WB>>)],
    [name |-> "ffs", pattern |-> Cat(<<WB, Word(<<"f", "f", "s">>), WB>>)],
    [name |-> "sigh", pattern |-> Cat(<<WB, Word(<<"s", "i", "g", "h">>), WB>>)],
    [name |-> "hate", pattern |-> Cat(<<WB, Word(<<"h", "a", "t", "e">>), WB>>)],
    [name |-> "horrible", pattern |-> Cat(<<WB, Word(<<"h", "o", "r", "r", "i", "b", "l", "e">>), WB>>)],
    [name |-> "terrible", pattern |-> Cat(<<WB, Word(<<"t", "e", "r", "r", "i", "b", "l", "e">>), WB>>)],
    [name |-> "nightmare", pattern |-> Cat(<<WB, Word(<<"n", "i", "g", "h", "t", "m", "a", "r", "e">>), WB>>)]
  >>

\* POSITIVE_SIGNALS: signal name -> pattern, in table order.
POSITIVE_SIGNALS ==
  <<
    [name |-> "improve", pattern |-> Cat(<<WB, Word(<<"i", "m", "p", "r", "o", "v">>), Alt(<<Cat(<<Lit("e"), Opt(Alt(<<Lit("s"), Lit("d")>>))>>), Word(<<"i", "n", "g">>), Word(<<"e", "m", "e", "n", "t">>)>>), WB>>)],
    [name |-> "enhance", pattern |-> Cat(<<WB, Word(<<"e", "n", "h", "a", "n", "c", "e">>), Opt(Alt(<<Lit("s"), Lit("d")>>)), WB>>)],
    [name |-> "optimize", pattern |-> Cat(<<WB, Word(<<"o", "p", "t", "i", "m", "i", "z">>), Alt(<<Cat(<<Lit("e"), Opt(Alt(<<Lit("s"), Lit("d")>>))>>), Word(<<"a", "t", "i", "o", "n">>)>>), WB>>)],
    [name |-> "refactor", pattern |-> Cat(<<WB, Word(<<"r", "e", "f", "a", "c", "t", "o", "r">>), Opt(Alt(<<Word(<<"e", "d">>), Word(<<"i", "n", "g">>)>>)), WB>>)],
    [name |-> "clean", pattern |-> Cat(<<WB, Word(<<"c", "l", "e", "a", "n">>), Opt(Alt(<<Word(<<"e", "d">>), Word(<<"i", "n", "g">>), Word(<<"u", "p">>)>>)), WB>>)],
    [name |-> "simplify", pattern |-> Cat(<<WB, Word(<<"s", "i", "m", "p", "l", "i", "f">>), Alt(<<Lit("y"), Word(<<"i", "e", "d">>), Word(<<"i", "e", "s">>)>>), WB>>)]
  >>


\* commit messages used as inputs
Msg_todo_fix_hack ==
  <<"T", "O", "D", "O", ":", " ", "f", "i", "x", " ", "t", "h", "i", "s", " ", "h", "a", "c", "k", " ", "l", "a", "t", "e", "r">>

Msg_repeats ==
  <<"t", "o", "d", "o", " ", "T", "o", "d", "o", " ", "T", "O", "D", "O", " ", "f", "i", "x", " ", "f", "i", "x", "e", "d">>

Msg_no_boundary ==
  <<"p", "r", "e", "f", "i", "x", " ", "h", "a", "c", "k", "a", "t", "h", "o", "n", " ", "f", "i", "x", "_", "m", "e", " ", "b", "u", "g", "f", "i", "x">>

Msg_why_start ==
  <<"w", "h", "y", " ", "d", "o", "e", "s", " ", "t", "h", "i", "s", " ", "k", "e", "e", "p", " ", "b", "r", "e", "a", "k", "i", "n", "g">>

Msg_why_later ==
  <<"I", " ", "w", "o", "n", "d", "e", "r", " ", "w", "h", "y", " ", "t", "h", "i", "s", " ", "b", "r", "e", "a", "k", "s">>

Msg_why_line2 ==
  <<"u", "g", "h", "\n", "w", "h", "y", " ", "i", "s", " ", "i", "t", " ", "b", "r", "o", "k", "e", "n">>

Msg_spaces ==
  <<"t", "e", "c", "h", "n", "i", "c", "a", "l", " ", " ", "d", "e", "b", "t", " ", "b", "a", "c", "k", "e", "d", " ", "o", "u", "t">>

Msg_mixed ==
  <<"R", "e", "v", "e", "r", "t", ":", " ", "u", "u", "u", "g", "h", "h", " ", "f", "i", "n", "a", "l", "l", "y", " ", "c", "l", "e", "a", "n", "u", "p">>

Msg_positive ==
  <<"F", "i", "x", "e", "s", " ", "i", "s", "s", "u", "e", ";", " ", "r", "e", "f", "a", "c", "t", "o", "r", "i", "n", "g", " ", "i", "m", "p", "r", "o", "v", "e", "d", " ", "c", "'", "m", "o", "n">>

Msg_plain ==
  <<"u", "p", "d", "a", "t", "e", " ", "r", "e", "a", "d", "m", "e">>

\* ------------------------------------------------------------------------
\* collections.Counter: name/count pairs in insertion order
\* ------------------------------------------------------------------------

EmptyCounter == <<>>

Names(counter) == {counter[i].name : i \in DOMAIN counter}

\* counter[name], 0 for a missing name
Count(counter, name) ==
  IF name \in Names(counter)
  THEN counter[CHOOSE i \in DOMAIN counter : counter[i].name = name].count
  ELSE 0

\* counter[name] += k
CounterAdd(counter, name, k) ==
  IF name \in Names(counter)
  THEN [i \in DOMAIN counter |->
          IF counter[i].name = name
          THEN [name |-> name, count |-> counter[i].count + k]
          ELSE counter[i]]
  ELSE Append(counter, [name |-> name, count |-> k])

RECURSIVE CounterUpdateFrom(_, _, _)
CounterUpdateFrom(counter, other, n) ==
  IF n > Len(other) THEN counter
  ELSE CounterUpdateFrom(CounterAdd(counter, other[n].name, other[n].count), other, n + 1)

\* counter.update(other)
CounterUpdate(counter, other) == CounterUpdateFrom(counter, other, 1)

RECURSIVE SumCountsFrom(_, _)
SumCountsFrom(counter, n) ==
  IF n > Len(counter) THEN 0 ELSE counter[n].count + SumCountsFrom(counter, n + 1)

\* sum(counter.values())
SumCounts(counter) == SumCountsFrom(counter, 1)

\* ------------------------------------------------------------------------
\* analyze_message
\* ------------------------------------------------------------------------

RECURSIVE ScanSignals(_, _, _, _)
RECURSIVE ScanSignalsPerOccurrence(_, _, _, _)
\* a scan that counts every occurrence (len(re.findall(...))) instead of one hit
ScanSignalsPerOccurrence(table, n, message, counter) ==
  IF n > Len(table) THEN counter
  ELSE ScanSignalsPerOccurrence(table, n + 1, message,
         LET hits == Cardinality({i \in 0..Len(message) : Ends(table[n].pattern, message, i) # {}})
         IN IF hits > 0 THEN CounterAdd(counter, table[n].name, hits) ELSE counter)

\* for name, pattern in table.items(): if re.search(...): counter[name] += 1
ScanSignals(table, n, message, counter) ==
  IF n > Len(table) THEN counter
  ELSE ScanSignals(table, n + 1, message,
                   IF Search(table[n].pattern, message)
                   THEN CounterAdd(counter, table[n].name, 1)
                   ELSE counter)

analyze_message(message) ==
  [debt |-> ScanSignals(DEBT_SIGNALS, 1, message, EmptyCounter),
   bug |-> ScanSignals(BUG_SIGNALS, 1, message, EmptyCounter),
   revert |-> ScanSignals(REVERT_SIGNALS, 1, message, EmptyCounter),
   frustration |-> ScanSignals(FRUSTRATION_SIGNALS, 1, message, EmptyCounter),
   positive |-> ScanSignals(POSITIVE_SIGNALS, 1, message, EmptyCounter)]

Categories == {"debt", "bug", "revert", "frustration", "positive"}

SignalTable(category) ==
  CASE category = "debt" -> DEBT_SIGNALS
    [] category = "bug" -> BUG_SIGNALS
    [] category = "revert" -> REVERT_SIGNALS
    [] category = "frustration" -> FRUSTRATION_SIGNALS
    [] category = "positive" -> POSITIVE_SIGNALS

\* ------------------------------------------------------------------------
\* Numbers: a float is kept as an exact fraction num/den with den > 0
\* ------------------------------------------------------------------------

ZeroDivisionError == [error |-> "ZeroDivisionError"]
StatisticsError == [error |-> "StatisticsError"]
ValueError == [error |-> "ValueError"]
KeyError == [error |-> "KeyError"]

\* v stands for a raised exception (v is a record or an empty dict)
IsError(v) == "error" \in DOMAIN v

Frac(n, d) == [num |-> n, den |-> d]

\* a / b
Div(a, b) == IF b = 0 THEN ZeroDivisionError ELSE Frac(a, b)

\* q * k for an integer k
Times(q, k) == IF IsError(q) THEN q ELSE Frac(q.num * k, q.den)

\* p + q
Plus2(p, q) == Frac(p.num * q.den + q.num * p.den, p.den * q.den)

FracEq(p, q) == p.num * q.den = q.num * p.den
FracLess(p, q) == p.num * q.den < q.num * p.den

\* round(q, digits) with scale = 10^digits: the nearest multiple of 1/scale,
\* ties to the even one
RoundScaled(q, scale) ==
  LET n == q.num * scale
      fl == n \div q.den
      twice == 2 * (n % q.den)
      up == twice > q.den \/ (twice = q.den /\ fl % 2 = 1)
  IN Frac(IF up THEN fl + 1 ELSE fl, scale)

Round1(q) == RoundScaled(q, 10)
Round2(q) == RoundScaled(q, 100)

\* ------------------------------------------------------------------------
\* datetime, isoformat() and fromisoformat()
\* ------------------------------------------------------------------------

RECURSIVE IntDigits(_)
\* str(n) for n >= 0
IntDigits(n) ==
  IF n < 10 THEN <<DigitChars[n + 1]>>
  ELSE Append(IntDigits(n \div 10), DigitChars[(n % 10) + 1])

\* "%0wd" % n
ZeroPad(n, w) ==
  LET d == IntDigits(n)
  IN IF Len(d) >= w THEN d ELSE [i \in 1..(w - Len(d)) |-> "0"] \o d

IsDigits(s) == s # <<>> /\ \A i \in DOMAIN s : s[i] \in Range(DigitChars)

DigitValue(c) == CHOOSE v \in 0..9 : DigitChars[v + 1] = c

RECURSIVE ParseDigits(_)
\* int(s) for a string of digits
ParseDigits(s) ==
  IF s = <<>> THEN 0
  ELSE ParseDigits(SubSeq(s, 1, Len(s) - 1)) * 10 + DigitValue(s[Len(s)])

\* tzinfo: none (a naive datetime) or a fixed UTC offset in minutes
Naive == [aware |-> FALSE, minutes |-> 0]
Offset(m) == [aware |-> TRUE, minutes |-> m]

DateTime(y, mo, d, h, mi, s, us, tz) ==
  [year |-> y, month |-> mo, day |-> d, hour |-> h, minute |-> mi,
   second |-> s, microsecond |-> us, tz |-> tz]

Abs(n) == IF n < 0 THEN 0 - n ELSE n

\* datetime.isoformat()
isoformat(dt) ==
  ZeroPad(dt.year, 4) \o <<"-">> \o ZeroPad(dt.month, 2) \o <<"-">> \o ZeroPad(dt.day, 2)
  \o <<"T">> \o ZeroPad(dt.hour, 2) \o <<":">> \o ZeroPad(dt.minute, 2)
  \o <<":">> \o ZeroPad(dt.second, 2)
  \o (IF dt.microsecond # 0 THEN <<".">> \o ZeroPad(dt.microsecond, 6) ELSE <<>>)
  \o (IF ~dt.tz.aware THEN <<>>
      ELSE <<IF dt.tz.minutes < 0 THEN "-" ELSE "+">> \o ZeroPad(Abs(dt.tz.minutes) \div 60, 2)
           \o <<":">> \o ZeroPad(Abs(dt.tz.minutes) % 60, 2))

\* datetime.strftime("%Y-%m-%d")
strftime_ymd(dt) ==
  ZeroPad(dt.year, 4) \o <<"-">> \o ZeroPad(dt.month, 2) \o <<"-">> \o ZeroPad(dt.day, 2)

\* s[i:j] with 0-based i and exclusive j, as Python slices
Slice(s, i, j) == SubSeq(s, i + 1, IF j > Len(s) THEN Len(s) ELSE j)

\* the "+HH:MM" / "-HH:MM" suffix of an ISO string, Naive for none
ParseOffset(s) ==
  IF s = <<>> THEN Naive
  ELSE IF /\ Len(s) = 6
          /\ s[1] \in {"+", "-"}
          /\ IsDigits(Slice(s, 1, 3))
          /\ s[4] = ":"
          /\ IsDigits(Slice(s, 4, 6))
          /\ ParseDigits(Slice(s, 1, 3)) < 24
          /\ ParseDigits(Slice(s, 4, 6)) < 60
       THEN Offset((IF s[1] = "-" THEN -1 ELSE 1)
                   * (ParseDigits(Slice(s, 1, 3)) * 60 + ParseDigits(Slice(s, 4, 6))))
       ELSE ValueError

\* datetime.fromisoformat(s) on YYYY-MM-DD[THH:MM:SS[.ffffff][+HH:MM]]
fromisoformat(s) ==
  LET dateOk == /\ Len(s) >= 10
                /\ IsDigits(Slice(s, 0, 4)) /\ s[5] = "-"
                /\ IsDigits(Slice(s, 5, 7)) /\ s[8] = "-"
                /\ IsDigits(Slice(s, 8, 10))
      y == ParseDigits(Slice(s, 0, 4))
      mo == ParseDigits(Slice(s, 5, 7))
      d == ParseDigits(Slice(s, 8, 10))
      timeOk == /\ Len(s) >= 19
                /\ IsDigits(Slice(s, 11, 13)) /\ s[14] = ":"
                /\ IsDigits(Slice(s, 14, 16)) /\ s[17] = ":"
                /\ IsDigits(Slice(s, 17, 19))
      h == ParseDigits(Slice(s, 11, 13))
      mi == ParseDigits(Slice(s, 14, 16))
      sec == ParseDigits(Slice(s, 17, 19))
      hasFraction == Len(s) >= 26 /\ s[20] = "." /\ IsDigits(Slice(s, 20, 26))
      us == IF hasFraction THEN ParseDigits(Slice(s, 20, 26)) ELSE 0
      rest == Slice(s, IF hasFraction THEN 26 ELSE 19, Len(s))
      tz == ParseOffset(rest)
  IN IF ~dateOk \/ y < 1 \/ mo \notin 1..12 \/ d \notin 1..31 THEN ValueError
     ELSE IF Len(s) = 10 THEN DateTime(y, mo, d, 0, 0, 0, 0, Naive)
     ELSE IF ~timeOk \/ h > 23 \/ mi > 59 \/ sec > 59 \/ IsError(tz) THEN ValueError
     ELSE DateTime(y, mo, d, h, mi, sec, us, tz)

\* ------------------------------------------------------------------------
\* RepoMetrics and its derived properties
\* ------------------------------------------------------------------------

\* Optional[str]: None or a string
NoneStr == [some |-> FALSE, v |-> ""]
SomeStr(s) == [some |-> TRUE, v |-> s]

\* Optional[datetime]: None or a datetime
NoneDateTime == [some |-> FALSE, v |-> DateTime(1, 1, 1, 0, 0, 0, 0, Naive)]
SomeDateTime(dt) == [some |-> TRUE, v |-> dt]

RepoMetrics(name, full_name, stars, open_issues, created_at, language, forks, total_issues, closed_issues, contributors, updated_at) ==
  [name |-> name, full_name |-> full_name, stars |-> stars, open_issues |-> open_issues,
   created_at |-> created_at, language |-> language, forks |-> forks,
   total_issues |-> total_issues, closed_issues |-> closed_issues,
   contributors |-> contributors, commits |-> 0, updated_at |-> updated_at]

AI_CUTOFF_YEAR == 2022

\* RepoMetrics.issues_per_1k_stars with the stars == 0 guard left out
issues_per_1k_stars_unguarded(r) == Times(Div(r.open_issues, r.stars), 1000)

\* RepoMetrics.issues_per_1k_stars
issues_per_1k_stars(r) ==
  IF r.stars = 0 THEN Frac(0, 1)
  ELSE Times(Div(r.open_issues, r.stars), 1000)

\* RepoMetrics.era with the cutoff year itself counted as pre-ai
RepoMetrics_era_inclusive(r) ==
  IF r.created_at.year <= AI_CUTOFF_YEAR THEN "pre-ai" ELSE "post-ai"

\* RepoMetrics.era
RepoMetrics_era(r) ==
  IF r.created_at.year < AI_CUTOFF_YEAR THEN "pre-ai" ELSE "post-ai"

\* the era expression of analyze_repo
analyze_repo_era(created_at) ==
  IF created_at.year < AI_CUTOFF_YEAR THEN "pre-ai" ELSE "post-ai"

Reverse(s) == [i \in DOMAIN s |-> s[Len(s) + 1 - i]]

Min(a, b) == IF a < b THEN a ELSE b
Max(a, b) == IF a > b THEN a ELSE b

\* s[:n] and s[-n:] as Python evaluates them, n >= 0 (so s[-0:] is s[0:])
PyHead(s, n) == SubSeq(s, 1, Min(n, Len(s)))
PyTail(s, n) == IF n = 0 THEN s ELSE SubSeq(s, Max(Len(s) - n, 0) + 1, Len(s))

\* the partition of analyze_by_era and the count of each part
analyze_by_era(repo_list) ==
  LET pre_ai == SelectSeq(repo_list, LAMBDA r : RepoMetrics_era(r) = "pre-ai")
      post_ai == SelectSeq(repo_list, LAMBDA r : RepoMetrics_era(r) = "post-ai")
  IN [pre_ai |-> pre_ai, post_ai |-> post_ai,
      pre_ai_era |-> [count |-> Len(pre_ai)],
      post_ai_era |-> [count |-> Len(post_ai)]]

RECURSIVE InsertDescending(_, _)
\* put the keyed entry e behind every entry of the sorted list whose key is >= its own
InsertDescending(sorted, e) ==
  IF sorted = <<>> THEN <<e>>
  ELSE IF FracLess(sorted[1].key, e.key) THEN <<e>> \o sorted
  ELSE <<sorted[1]>> \o InsertDescending(Tail(sorted), e)

RECURSIVE SortKeyedDescending(_, _)
SortKeyedDescending(keyed, n) ==
  IF n = 0 THEN <<>>
  ELSE InsertDescending(SortKeyedDescending(keyed, n - 1), keyed[n])

\* sorted(items, key=..., reverse=True) on a list of [key, item] entries:
\* stable, so equal keys keep their input order
SortedDescending(keyed) ==
  LET sorted == SortKeyedDescending(keyed, Len(keyed))
  IN [i \in DOMAIN sorted |-> sorted[i].item]

\* the entries of sorted(repos, key=lambda r: r.issues_per_1k_stars, ...)
KeyedByRatio(repo_list) ==
  [i \in DOMAIN repo_list |-> [key |-> issues_per_1k_stars(repo_list[i]), item |-> repo_list[i]]]

\* find_extremes.repo_summary
repo_summary(r) ==
  [name |-> r.full_name, stars |-> r.stars, open_issues |-> r.open_issues,
   issues_per_1k_stars |-> Round2(issues_per_1k_stars(r)),
   created |-> strftime_ymd(r.created_at), era |-> RepoMetrics_era(r)]

find_extremes(repo_list, top_n) ==
  LET sorted_by_ratio == SortedDescending(KeyedByRatio(repo_list))
      highest == PyHead(sorted_by_ratio, top_n)
      lowest == Reverse(PyTail(sorted_by_ratio, top_n))
  IN [highest_debt_ratio |-> [i \in DOMAIN highest |-> repo_summary(highest[i])],
      lowest_debt_ratio |-> [i \in DOMAIN lowest |-> repo_summary(lowest[i])]]

\* ------------------------------------------------------------------------
\* The cache file: json.dump / json.load of a list of flat records
\* ------------------------------------------------------------------------

\* JSON values as written to the file: numbers as decimal digits
JInt(n) == [t |-> "int", v |-> IntDigits(n)]
JStr(s) == [t |-> "str", v |-> s]
JNull == [t |-> "null", v |-> <<>>]

JIntValue(j) == ParseDigits(j.v)

CacheFile(data) == [exists |-> TRUE, valid_json |-> TRUE, data |-> data]
NoCacheFile == [exists |-> FALSE, valid_json |-> FALSE, data |-> <<>>]

\* save_cache writing created_at without its UTC offset
save_cache_naive(repo_list) ==
  CacheFile([i \in DOMAIN repo_list |->
    LET r == repo_list[i]
    IN [name |-> JStr(r.name),
        full_name |-> JStr(r.full_name),
        stars |-> JInt(r.stars),
        open_issues |-> JInt(r.open_issues),
        created_at |-> JStr(isoformat([r.created_at EXCEPT !.tz = Naive])),
        language |-> IF r.language.some THEN JStr(r.language.v) ELSE JNull,
        forks |-> JInt(r.forks),
        total_issues |-> JInt(r.total_issues),
        closed_issues |-> JInt(r.closed_issues),
        contributors |-> JInt(r.contributors)]])

\* save_cache: the file it leaves behind
save_cache(repo_list) ==
  CacheFile([i \in DOMAIN repo_list |->
    LET r == repo_list[i]
    IN [name |-> JStr(r.name),
        full_name |-> JStr(r.full_name),
        stars |-> JInt(r.stars),
        open_issues |-> JInt(r.open_issues),
        created_at |-> JStr(isoformat(r.created_at)),
        language |-> IF r.language.some THEN JStr(r.language.v) ELSE JNull,
        forks |-> JInt(r.forks),
        total_issues |-> JInt(r.total_issues),
        closed_issues |-> JInt(r.closed_issues),
        contributors |-> JInt(r.contributors)]])

RequiredCacheKeys == {"name", "full_name", "stars", "open_issues", "created_at", "forks"}

\* item.get(key, 0)
GetInt(item, key) == IF key \in DOMAIN item THEN JIntValue(item[key]) ELSE 0

\* building one RepoMetrics in load_cache raises
LoadItemRaises(item) ==
  \/ ~(RequiredCacheKeys \subseteq DOMAIN item)
  \/ item.created_at.t # "str"
  \/ IsError(fromisoformat(item.created_at.v))

LoadItem(item) ==
  RepoMetrics(item.name.v, item.full_name.v, JIntValue(item.stars),
              JIntValue(item.open_issues), fromisoformat(item.created_at.v),
              IF "language" \in DOMAIN item /\ item.language.t = "str"
              THEN SomeStr(item.language.v) ELSE NoneStr,
              JIntValue(item.forks),
              GetInt(item, "total_issues"), GetInt(item, "closed_issues"),
              GetInt(item, "contributors"), NoneDateTime)

\* load_cache that skips a record it cannot build and keeps the others
load_cache_skip_failed(file) ==
  IF ~file.exists THEN <<>>
  ELSE IF ~file.valid_json THEN <<>>
  ELSE LET loadable == SelectSeq(file.data, LAMBDA item : ~LoadItemRaises(item))
       IN [i \in DOMAIN loadable |-> LoadItem(loadable[i])]

\* load_cache: [] for a missing file and for any exception while loading
load_cache(file) ==
  IF ~file.exists THEN <<>>
  ELSE IF ~file.valid_json THEN <<>>
  ELSE IF \E i \in DOMAIN file.data : LoadItemRaises(file.data[i]) THEN <<>>
  ELSE [i \in DOMAIN file.data |-> LoadItem(file.data[i])]

\* the working directory before a run that has no cache and has written nothing
NoFiles == files = [repo_cache |-> NoCacheFile, written |-> {}]

\* the era selection of the commit pipeline's main, on the loaded cache records
commit_main_partition(data) ==
  [pre_ai_repos |-> SelectSeq(data, LAMBDA r : fromisoformat(r.created_at.v).year < AI_CUTOFF_YEAR),
   post_ai_repos |-> SelectSeq(data, LAMBDA r : fromisoformat(r.created_at.v).year >= AI_CUTOFF_YEAR)]

\* ------------------------------------------------------------------------
\* CommitAnalysis and analyze_repo's loop body
\* ------------------------------------------------------------------------

SAMPLE_LIMIT == 20
SAMPLE_LINE_LENGTH == 100
ANALYZE_MAX_COMMITS == 500

CommitAnalysis(repo, era) ==
  [repo |-> repo, era |-> era, total_commits |-> 0,
   debt_signals |-> EmptyCounter, bug_signals |-> EmptyCounter,
   revert_signals |-> EmptyCounter, frustration_signals |-> EmptyCounter,
   positive_signals |-> EmptyCounter,
   message_lengths |-> <<>>, sample_messages |-> <<>>]

\* (sum(counter.values()) / total) * 100
Per100(counter, total) == Times(Div(SumCounts(counter), total), 100)

debt_ratio(a) ==
  IF a.total_commits = 0 THEN Frac(0, 1) ELSE Per100(a.debt_signals, a.total_commits)

bug_ratio(a) ==
  IF a.total_commits = 0 THEN Frac(0, 1) ELSE Per100(a.bug_signals, a.total_commits)

revert_ratio(a) ==
  IF a.total_commits = 0 THEN Frac(0, 1) ELSE Per100(a.revert_signals, a.total_commits)

frustration_ratio(a) ==
  IF a.total_commits = 0 THEN Frac(0, 1) ELSE Per100(a.frustration_signals, a.total_commits)

positive_ratio(a) ==
  IF a.total_commits = 0 THEN Frac(0, 1) ELSE Per100(a.positive_signals, a.total_commits)

RECURSIVE SumFracs(_, _)
SumFracs(s, n) == IF n = 0 THEN Frac(0, 1) ELSE Plus2(SumFracs(s, n - 1), s[n])

\* statistics.mean of a list of numbers
Mean(s) ==
  IF s = <<>> THEN StatisticsError
  ELSE LET total == SumFracs(s, Len(s)) IN Frac(total.num, total.den * Len(s))

avg_message_length(a) ==
  IF a.message_lengths = <<>> THEN Frac(0, 1)
  ELSE Mean([i \in DOMAIN a.message_lengths |-> Frac(a.message_lengths[i], 1)])

\* commit.get("commit", {}).get("message", "")
CommitMessage(commit) ==
  IF "commit" \in DOMAIN commit /\ "message" \in DOMAIN commit.commit
  THEN commit.commit.message
  ELSE <<>>

\* message.split('\n')[0]
FirstLine(message) ==
  IF \E i \in DOMAIN message : message[i] = "\n"
  THEN SubSeq(message, 1, (CHOOSE i \in DOMAIN message :
                             /\ message[i] = "\n"
                             /\ \A j \in 1..(i - 1) : message[j] # "\n") - 1)
  ELSE message

\* the loop body with the len(sample_messages) < 20 test left out
analyze_commit_uncapped(current, commit) ==
  LET message == CommitMessage(commit)
      signals == analyze_message(message)
  IN IF message = <<>> THEN current
     ELSE [current EXCEPT
             !.total_commits = @ + 1,
             !.message_lengths = Append(@, Len(message)),
             !.debt_signals = CounterUpdate(@, signals.debt),
             !.bug_signals = CounterUpdate(@, signals.bug),
             !.revert_signals = CounterUpdate(@, signals.revert),
             !.frustration_signals = CounterUpdate(@, signals.frustration),
             !.positive_signals = CounterUpdate(@, signals.positive),
             !.sample_messages =
                IF signals.frustration # EmptyCounter \/ signals.debt # EmptyCounter
                THEN Append(@, Slice(FirstLine(message), 0, SAMPLE_LINE_LENGTH))
                ELSE @]

\* the loop body without "if not message: continue"
analyze_commit_unguarded(current, commit) ==
  LET message == CommitMessage(commit)
      signals == analyze_message(message)
  IN [current EXCEPT
        !.total_commits = @ + 1,
        !.message_lengths = Append(@, Len(message)),
        !.debt_signals = CounterUpdate(@, signals.debt),
        !.bug_signals = CounterUpdate(@, signals.bug),
        !.revert_signals = CounterUpdate(@, signals.revert),
        !.frustration_signals = CounterUpdate(@, signals.frustration),
        !.positive_signals = CounterUpdate(@, signals.positive),
        !.sample_messages =
           IF signals.frustration # EmptyCounter \/ signals.debt # EmptyCounter
           THEN (IF Len(@) < SAMPLE_LIMIT
                 THEN Append(@, Slice(FirstLine(message), 0, SAMPLE_LINE_LENGTH))
                 ELSE @)
           ELSE @]

\* one iteration of "for commit in commits" in analyze_repo
analyze_commit(current, commit) ==
  LET message == CommitMessage(commit)
      signals == analyze_message(message)
  IN IF message = <<>> THEN current
     ELSE [current EXCEPT
             !.total_commits = @ + 1,
             !.message_lengths = Append(@, Len(message)),
             !.debt_signals = CounterUpdate(@, signals.debt),
             !.bug_signals = CounterUpdate(@, signals.bug),
             !.revert_signals = CounterUpdate(@, signals.revert),
             !.frustration_signals = CounterUpdate(@, signals.frustration),
             !.positive_signals = CounterUpdate(@, signals.positive),
             !.sample_messages =
                IF signals.frustration # EmptyCounter \/ signals.debt # EmptyCounter
                THEN (IF Len(@) < SAMPLE_LIMIT
                      THEN Append(@, Slice(FirstLine(message), 0, SAMPLE_LINE_LENGTH))
                      ELSE @)
                ELSE @]

RECURSIVE AnalyzeCommits(_, _, _)
\* the analysis after the first n commits of the list
AnalyzeCommits(current, commit_list, n) ==
  IF n = 0 THEN current
  ELSE analyze_commit(AnalyzeCommits(current, commit_list, n - 1), commit_list[n])

\* ------------------------------------------------------------------------
\* aggregate_by_era of the commit pipeline
\* ------------------------------------------------------------------------

RECURSIVE SumTotalCommits(_, _)
SumTotalCommits(list, n) ==
  IF n = 0 THEN 0 ELSE SumTotalCommits(list, n - 1) + list[n].total_commits

RECURSIVE MergeCounters(_, _, _)
\* all = Counter(); for a in list: all.update(a.<field>)
MergeCounters(list, field, n) ==
  IF n = 0 THEN EmptyCounter
  ELSE CounterUpdate(MergeCounters(list, field, n - 1), list[n][field])

\* counter.most_common(k)
most_common(counter, k) ==
  PyHead(SortedDescending([i \in DOMAIN counter |->
                             [key |-> Frac(counter[i].count, 1), item |-> counter[i]]]), k)

\* round((sum(counter.values()) / total) * 100, 2) if total else 0
RoundedPer100(counter, total) ==
  IF total # 0 THEN Round2(Per100(counter, total)) ELSE Frac(0, 1)

\* aggregate_by_era.calc_stats: {} for an empty list; StatisticsError when
\* statistics.mean gets no repository with a positive average message length
calc_stats(analysis_list) ==
  IF analysis_list = <<>> THEN <<>>
  ELSE
    LET total_commits == SumTotalCommits(analysis_list, Len(analysis_list))
        all_debt == MergeCounters(analysis_list, "debt_signals", Len(analysis_list))
        all_bug == MergeCounters(analysis_list, "bug_signals", Len(analysis_list))
        all_revert == MergeCounters(analysis_list, "revert_signals", Len(analysis_list))
        all_frustration == MergeCounters(analysis_list, "frustration_signals", Len(analysis_list))
        all_positive == MergeCounters(analysis_list, "positive_signals", Len(analysis_list))
        with_messages == SelectSeq(analysis_list, LAMBDA a : avg_message_length(a).num > 0)
        lengths == [i \in DOMAIN with_messages |-> avg_message_length(with_messages[i])]
    IN IF IsError(Mean(lengths)) THEN Mean(lengths)
       ELSE [repos |-> Len(analysis_list),
             total_commits |-> total_commits,
             debt_per_100 |-> RoundedPer100(all_debt, total_commits),
             bug_per_100 |-> RoundedPer100(all_bug, total_commits),
             revert_per_100 |-> RoundedPer100(all_revert, total_commits),
             frustration_per_100 |-> RoundedPer100(all_frustration, total_commits),
             positive_per_100 |-> RoundedPer100(all_positive, total_commits),
             top_debt_signals |-> most_common(all_debt, 5),
             top_bug_signals |-> most_common(all_bug, 5),
             top_frustration_signals |-> most_common(all_frustration, 5),
             avg_msg_length |-> Round1(Mean(lengths))]

\* the two era partitions of aggregate_by_era
aggregate_partition(analyses) ==
  [pre_ai |-> SelectSeq(analyses, LAMBDA a : a.era = "pre-ai"),
   post_ai |-> SelectSeq(analyses, LAMBDA a : a.era = "post-ai")]

\* aggregate_by_era: the dict of both eras, or the exception calc_stats raised
aggregate_by_era(analyses) ==
  LET parts == aggregate_partition(analyses)
      pre == calc_stats(parts.pre_ai)
      post == calc_stats(parts.post_ai)
  IN IF IsError(pre) THEN pre
     ELSE IF IsError(post) THEN post
     ELSE [pre_ai |-> pre, post_ai |-> post]

\* ------------------------------------------------------------------------
\* HTTP responses and the rate-limit headers
\* ------------------------------------------------------------------------

Header(v) == [present |-> TRUE, value |-> v]
NoHeader == [present |-> FALSE, value |-> 0]

\* int(response.headers.get(name, default))
HeaderInt(h, default) == IF h.present THEN h.value ELSE default

\* status: "ok" (2xx), "not_ok" (any other status), "raises" (requests.get raised)
Response(status, data, remaining, reset) ==
  [status |-> status, data |-> data, remaining |-> remaining, reset |-> reset]

\* one entry of the request log: the GET, the response, and the rate-limit
\* sleep the caller made on it (wait = 0: no such sleep)
Request(endpoint, target, page_no, per_page, r, wait) ==
  [endpoint |-> endpoint, target |-> target, page |-> page_no, per_page |-> per_page,
   status |-> r.status, data |-> r.data,
   remaining |-> HeaderInt(r.remaining, 10), wait |-> wait]

\* ------------------------------------------------------------------------
\* fetch_commits
\* ------------------------------------------------------------------------

\* the wait without max(..., 0): negative for a reset time in the past
fetch_commits_wait_unfloored(r, now) ==
  IF HeaderInt(r.remaining, 10) < 5
  THEN (HeaderInt(r.reset, 0) - now) + 1
  ELSE 0

\* the "Handle rate limiting" block of fetch_commits: seconds slept, 0 for none
fetch_commits_wait(r, now) ==
  IF HeaderInt(r.remaining, 10) < 5
  THEN Max(HeaderInt(r.reset, 0) - now, 0) + 1
  ELSE 0

\* the iteration without "if not data: break": an empty page is appended
\* like any other and the loop goes on
fetch_commits_step_past_empty(st, r, now) ==
  IF r.status = "raises"
  THEN [st EXCEPT !.requests = Append(@, Request("commits", st.repo, st.page, 100, r, 0)),
                  !.pc = "return"]
  ELSE LET wait == fetch_commits_wait(r, now)
           logged == Append(st.requests, Request("commits", st.repo, st.page, 100, r, wait))
       IN IF r.status # "ok"
          THEN [st EXCEPT !.requests = logged, !.pc = "return"]
          ELSE [st EXCEPT !.requests = logged,
                          !.commits = @ \o r.data,
                          !.page = @ + 1,
                          !.pc = "loop"]

\* one iteration of the while loop of fetch_commits on the response r:
\* an exception of requests.get is caught and breaks; otherwise the rate-limit
\* block runs, then a non-success or an empty page breaks, and any other page
\* is appended and the page number advanced
fetch_commits_step(st, r, now) ==
  IF r.status = "raises"
  THEN [st EXCEPT !.requests = Append(@, Request("commits", st.repo, st.page, 100, r, 0)),
                  !.pc = "return"]
  ELSE LET wait == fetch_commits_wait(r, now)
           logged == Append(st.requests, Request("commits", st.repo, st.page, 100, r, wait))
       IN IF r.status # "ok" \/ r.data = <<>>
          THEN [st EXCEPT !.requests = logged, !.pc = "return"]
          ELSE [st EXCEPT !.requests = logged,
                          !.commits = @ \o r.data,
                          !.page = @ + 1,
                          !.pc = "loop"]

\* return commits[:max_commits] without the slice
fetch_commits_return_all(list, limit) == list

\* return commits[:max_commits]
fetch_commits_return(list, limit) == PyHead(list, limit)

\* ------------------------------------------------------------------------
\* search_repos, parse_repo and fetch_popular_repos
\* ------------------------------------------------------------------------

RECURSIVE ReplaceZ(_)
\* s.replace("Z", "+00:00")
ReplaceZ(s) ==
  IF s = <<>> THEN <<>>
  ELSE (IF s[1] = "Z" THEN <<"+", "0", "0", ":", "0", "0">> ELSE <<s[1]>>) \o ReplaceZ(Tail(s))

RequiredApiKeys ==
  {"name", "full_name", "stargazers_count", "open_issues_count", "created_at", "forks_count"}

\* parse_repo(data) raises (a missing key, an unparsable timestamp)
ParseRepoRaises(data) ==
  \/ ~(RequiredApiKeys \subseteq DOMAIN data)
  \/ IsError(fromisoformat(ReplaceZ(data.created_at)))
  \/ "updated_at" \in DOMAIN data /\ IsError(fromisoformat(ReplaceZ(data.updated_at)))

parse_repo(data) ==
  RepoMetrics(data.name, data.full_name, data.stargazers_count, data.open_issues_count,
              fromisoformat(ReplaceZ(data.created_at)),
              IF "language" \in DOMAIN data THEN data.language ELSE NoneStr,
              data.forks_count, 0, 0, 0,
              IF "updated_at" \in DOMAIN data
              THEN SomeDateTime(fromisoformat(ReplaceZ(data.updated_at)))
              ELSE NoneDateTime)

\* the "Respect rate limits" block of search_repos: seconds slept, 0 for none
search_repos_wait(r, now) ==
  IF HeaderInt(r.remaining, 10) < 5
  THEN Max(HeaderInt(r.reset, 0) - now, 0) + 1
  ELSE 0

\* search_repos on the response r: raise_for_status() comes before the
\* rate-limit block, so a non-success raises without sleeping
search_repos(q, per_page, r, now) ==
  IF r.status # "ok"
  THEN [raised |-> TRUE, items |-> <<>>,
        request |-> Request("search", q, 1, per_page, r, 0)]
  ELSE [raised |-> FALSE, items |-> r.data,
        request |-> Request("search", q, 1, per_page, r, search_repos_wait(r, now))]

\* the search query of the n-th request (0-based) of fetch_popular_repos
SearchQuery(languages, n) ==
  [language |-> languages[(n \div 2) + 1],
   created |-> IF n % 2 = 0 THEN "<2022-01-01" ELSE ">=2022-01-01"]

\* one try block without its except clause: the exception leaves the function
popular_repos_step_uncaught(st, r, now) ==
  LET found == search_repos(SearchQuery(st.languages, st.query), 30, r, now)
      failed == found.raised \/ \E i \in DOMAIN found.items : ParseRepoRaises(found.items[i])
      extended == IF failed THEN st.repos
                  ELSE st.repos \o [i \in DOMAIN found.items |-> parse_repo(found.items[i])]
      finished == st.query + 1
  IN [st EXCEPT !.requests = Append(@, found.request),
                !.repos = extended,
                !.query = finished,
                !.pc = IF failed THEN "raised"
                       ELSE IF \/ finished = 2 * Len(st.languages)
                               \/ finished % 2 = 0 /\ Len(extended) >= st.max_repos
                            THEN "return" ELSE "loop"]

\* one try block of fetch_popular_repos (the pre-AI or the post-AI query of a
\* language) on the response r, and, behind the post-AI query, the
\* len(repos) >= max_repos test that ends the loop
popular_repos_step(st, r, now) ==
  LET found == search_repos(SearchQuery(st.languages, st.query), 30, r, now)
      failed == found.raised \/ \E i \in DOMAIN found.items : ParseRepoRaises(found.items[i])
      extended == IF failed THEN st.repos
                  ELSE st.repos \o [i \in DOMAIN found.items |-> parse_repo(found.items[i])]
      finished == st.query + 1
  IN [st EXCEPT !.requests = Append(@, found.request),
                !.repos = extended,
                !.query = finished,
                !.pc = IF \/ finished = 2 * Len(st.languages)
                          \/ finished % 2 = 0 /\ Len(extended) >= st.max_repos
                       THEN "return" ELSE "loop"]

\* ------------------------------------------------------------------------
\* fetch_issue_counts, fetch_contributor_count and enrich_repo_metrics
\* ------------------------------------------------------------------------

\* resp.json().get("total_count", 0) if resp.ok else 0
IssueCount(entry) ==
  IF entry.status = "ok" /\ "total_count" \in DOMAIN entry.data THEN entry.data.total_count ELSE 0

\* fetch_contributor_count on its response: the last page of the Link header,
\* else the length of the body; 0 for a non-success
ContributorCount(entry) ==
  IF entry.status # "ok" THEN 0
  ELSE IF entry.data.last_page.present THEN entry.data.last_page.value
  ELSE Len(entry.data.body)

\* the GETs of enrich_repo_metrics(repo, True), none of which looks at the
\* rate-limit headers: query 0 and 1 are the open and the closed issue search
\* (an exception in either gives 0, 0 and ends fetch_issue_counts), query 2
\* is the contributor listing
enrich_step(st, r) ==
  LET endpoint == IF st.query < 2 THEN "issues" ELSE "contributors"
      entry == Request(endpoint, st.repo.full_name, 1, 1, r, 0)
      logged == Append(st.requests, entry)
  IN IF st.query = 0
     THEN IF r.status = "raises"
          THEN [st EXCEPT !.requests = logged,
                          !.query = 2,
                          !.repo = [@ EXCEPT !.total_issues = 0, !.closed_issues = 0]]
          ELSE [st EXCEPT !.requests = logged, !.query = 1]
     ELSE IF st.query = 1
     THEN LET open_count == IF r.status = "raises" THEN 0
                            ELSE IssueCount(st.requests[Len(st.requests)])
              closed_count == IF r.status = "raises" THEN 0 ELSE IssueCount(entry)
          IN [st EXCEPT !.requests = logged,
                        !.query = 2,
                        !.repo = [@ EXCEPT !.total_issues = open_count + closed_count,
                                           !.closed_issues = closed_count]]
     ELSE [st EXCEPT !.requests = logged,
                     !.query = 3,
                     !.repo = [@ EXCEPT !.contributors =
                                 IF r.status = "raises" THEN 0 ELSE ContributorCount(entry)],
                     !.pc = "return"]

\* ------------------------------------------------------------------------
\* analyze_by_language of the repository metrics pipeline
\* ------------------------------------------------------------------------

MIN_GROUP_SIZE == 3

\* statistics.median of a non-empty list of numbers
Median(s) ==
  LET sorted == SortedDescending([i \in DOMAIN s |-> [key |-> s[i], item |-> s[i]]])
      n == Len(sorted)
  IN IF n % 2 = 1 THEN sorted[(n + 1) \div 2]
     ELSE LET both == Plus2(sorted[n \div 2], sorted[(n \div 2) + 1])
          IN Frac(both.num, both.den * 2)

RECURSIVE GCD(_, _)
GCD(a, b) == IF b = 0 THEN a ELSE GCD(b, a % b)

\* the same number in lowest terms
Reduced(q) ==
  LET g == GCD(Abs(q.num), Abs(q.den))
  IN IF g = 0 THEN q ELSE Frac(q.num \div g, q.den \div g)

\* lang = repo.language or "Unknown"
LanguageOf(r) == IF r.language.some /\ r.language.v # "" THEN r.language.v ELSE "Unknown"

RECURSIVE LanguagesInOrder(_, _)
\* the keys of by_lang after the first n repositories, in insertion order
LanguagesInOrder(repo_list, n) ==
  IF n = 0 THEN <<>>
  ELSE LET before == LanguagesInOrder(repo_list, n - 1)
           lang == LanguageOf(repo_list[n])
       IN IF \E i \in DOMAIN before : before[i] = lang THEN before ELSE Append(before, lang)

\* by_lang[lang]
LanguageGroup(repo_list, lang) == SelectSeq(repo_list, LAMBDA r : LanguageOf(r) = lang)

\* results[lang] of analyze_by_language
LanguageStats(repo_list, lang) ==
  LET members == LanguageGroup(repo_list, lang)
      ratios == [i \in DOMAIN members |-> Reduced(issues_per_1k_stars(members[i]))]
  IN [language |-> lang,
      count |-> Len(members),
      avg_issues_per_1k_stars |-> Round2(Reduced(Mean(ratios))),
      median_issues_per_1k_stars |-> Round2(Reduced(Median(ratios)))]

\* analyze_by_language without "if len(repo_list) < 3: continue"
analyze_by_language_keep_small(repo_list) ==
  LET languages == LanguagesInOrder(repo_list, Len(repo_list))
  IN [i \in DOMAIN languages |-> LanguageStats(repo_list, languages[i])]

\* analyze_by_language: the entries of results in insertion order
analyze_by_language(repo_list) ==
  LET languages == LanguagesInOrder(repo_list, Len(repo_list))
      kept == SelectSeq(languages,
                        LAMBDA lang : ~(Len(LanguageGroup(repo_list, lang)) < MIN_GROUP_SIZE))
  IN [i \in DOMAIN kept |-> LanguageStats(repo_list, kept[i])]

\* ------------------------------------------------------------------------
\* Inputs of the message classifier
\* ------------------------------------------------------------------------

MaxMsgLen == 3

MsgAlphabet == {"f", "i", "x", "X", " "}

RECURSIVE StringsUpTo(_, _)
StringsUpTo(alphabet, n) ==
  IF n = 0 THEN {<<>>}
  ELSE LET shorter == StringsUpTo(alphabet, n - 1)
       IN shorter \cup {Append(s, c) : s \in shorter, c \in alphabet}

SampleMessages ==
  {Msg_todo_fix_hack, Msg_repeats, Msg_no_boundary, Msg_why_start, Msg_why_later,
   Msg_why_line2, Msg_spaces, Msg_mixed, Msg_positive, Msg_plain}

MaxAffixLen == 1

\* what may stand before and behind a "why"
AffixAlphabet == {"a", " ", "\n"}

WhyWords == {<<"w", "h", "y">>, <<"W", "H", "Y">>, <<"W", "h", "y">>, <<"w", "h">>}

\* a "why" in some letter case, or a part of it, with text around it
WhyMessages ==
  {before \o word \o behind : before \in StringsUpTo(AffixAlphabet, MaxAffixLen),
                             word \in WhyWords,
                             behind \in StringsUpTo(AffixAlphabet, MaxAffixLen)}

Messages == SampleMessages \cup StringsUpTo(MsgAlphabet, MaxMsgLen) \cup WhyMessages

\* ------------------------------------------------------------------------
\* Specification of the message classifier: one call of analyze_message
\* ------------------------------------------------------------------------

InitClassify ==
  /\ NoFetch /\ NoRequests /\ NoAnalysis /\ NoSearch /\ NoFiles
  /\ pc = "call"
  /\ op = "analyze_message"
  /\ arg \in Messages
  /\ res = Null

Call_analyze_message ==
  /\ pc = "call"
  /\ op = "analyze_message"
  /\ res' = analyze_message(arg)
  /\ pc' = "done"
  /\ UNCHANGED <<callVars, files, fetchVars, requests, analyzeVars, searchVars>>

NextClassify == Call_analyze_message

SpecClassify == InitClassify /\ [][NextClassify]_vars

\* The word w (letters only) occurs in s as a whole word, in any letter case.
ContainsWord(s, w) ==
  \E i \in 0..(Len(s) - Len(w)) :
    /\ \A k \in 1..Len(w) : Lower(s[i + k]) = Lower(w[k])
    /\ (i = 0 \/ ~IsWordChar(s[i]))
    /\ (i + Len(w) = Len(s) \/ ~IsWordChar(s[i + Len(w) + 1]))

\* C10: analyze_message records, per category and signal name, a count of
\* exactly 1 when the signal's pattern matches the full message (any letter
\* case, on word boundaries) and no entry otherwise, however often the keyword
\* occurs; "TODO: fix this hack later" gives debt {todo, hack}, bug {fix} and
\* nothing in revert, frustration and positive.
C10_OneHitPerSignal ==
  (pc = "done" /\ op = "analyze_message") =>
    /\ \A c \in Categories :
         /\ Names(res[c]) \subseteq {SignalTable(c)[n].name : n \in DOMAIN SignalTable(c)}
         /\ Cardinality(Names(res[c])) = Len(res[c])
         /\ \A n \in DOMAIN SignalTable(c) :
              LET e == SignalTable(c)[n]
              IN /\ Search(e.pattern, arg) => (e.name \in Names(res[c]) /\ Count(res[c], e.name) = 1)
                 /\ ~Search(e.pattern, arg) => e.name \notin Names(res[c])
    /\ ("todo" \in Names(res.debt)) <=> ContainsWord(arg, <<"t", "o", "d", "o">>)
    /\ ("hack" \in Names(res.debt)) <=> ContainsWord(arg, <<"h", "a", "c", "k">>)
    /\ ("xxx" \in Names(res.debt)) <=> ContainsWord(arg, <<"x", "x", "x">>)
    /\ ("fix" \in Names(res.bug)) <=>
         \/ ContainsWord(arg, <<"f", "i", "x">>)
         \/ ContainsWord(arg, <<"f", "i", "x", "e", "s">>)
         \/ ContainsWord(arg, <<"f", "i", "x", "e", "d">>)
    /\ arg = Msg_todo_fix_hack =>
         /\ Names(res.debt) = {"todo", "hack"}
         /\ Names(res.bug) = {"fix"}
         /\ res.revert = EmptyCounter
         /\ res.frustration = EmptyCounter
         /\ res.positive = EmptyCounter

\* a message with three occurrences of TODO and two of fix has been classified
C10_Witness ==
  /\ pc = "done"
  /\ op = "analyze_message"
  /\ arg = Msg_repeats
  /\ Count(res.debt, "todo") = 1
  /\ Count(res.bug, "fix") = 1

\* the text begins with the word "why", in any letter case
BeginsWithWhy(s) ==
  /\ Len(s) >= 3
  /\ Lower(s[1]) = "w" /\ Lower(s[2]) = "h" /\ Lower(s[3]) = "y"
  /\ (Len(s) = 3 \/ ~IsWordChar(s[4]))

\* C11: the "why" frustration signal is recorded iff the message text begins
\* with the word "why" in any letter case: "why does this keep breaking"
\* triggers it; "I wonder why this breaks", and a "why" at the start of a
\* later line of a multi-line message, do not.
C11_WhyOnlyAtMessageStart ==
  (pc = "done" /\ op = "analyze_message") =>
    /\ ("why" \in Names(res.frustration)) <=> BeginsWithWhy(arg)
    /\ arg = Msg_why_start => "why" \in Names(res.frustration)
    /\ arg \in {Msg_why_later, Msg_why_line2} => "why" \notin Names(res.frustration)

\* a message with the word "why" at the start of its second line has been
\* classified
C11_Witness ==
  /\ pc = "done"
  /\ op = "analyze_message"
  /\ arg = Msg_why_line2
  /\ ContainsWord(arg, <<"w", "h", "y">>)
  /\ "ugh" \in Names(res.frustration)
  /\ "why" \notin Names(res.frustration)

\* ------------------------------------------------------------------------
\* Inputs of the repository functions
\* ------------------------------------------------------------------------

MaxRepos == 3
MaxTopN == 3
MaxStars == 3
MaxIssues == 4

UTC == Offset(0)

Repo(full_name, stars, open_issues, created_at, language) ==
  RepoMetrics(full_name, full_name, stars, open_issues, created_at, language, 7,
              0, 0, 0, SomeDateTime(created_at))

\* ratios 10, 5, 8, 1 and 20 issues per 1000 stars
Repo_r10 == Repo("a/r10", 1000, 10, DateTime(2021, 12, 31, 23, 59, 59, 0, UTC), SomeStr("python"))
Repo_r5 == Repo("b/r5", 1000, 5, DateTime(2022, 1, 1, 0, 0, 0, 0, UTC), NoneStr)
Repo_r8 == Repo("c/r8", 1000, 8, DateTime(2008, 4, 10, 2, 3, 4, 0, UTC), SomeStr("go"))
Repo_r1 == Repo("d/r1", 1000, 1, DateTime(2023, 6, 15, 12, 30, 0, 7, UTC), SomeStr(""))
Repo_r20 == Repo("e/r20", 1000, 20, DateTime(2021, 12, 31, 20, 0, 0, 0, Offset(-300)), SomeStr("go"))
\* no stars, and a second repository with ratio 10
Repo_nostars == Repo("f/nostars", 0, 3, DateTime(2022, 12, 31, 23, 59, 59, 0, UTC), SomeStr("python"))
Repo_tie10 == Repo("g/tie10", 200, 2, DateTime(2024, 2, 29, 0, 0, 0, 0, Naive), SomeStr("python"))

ExampleRepos == <<Repo_r10, Repo_r5, Repo_r8, Repo_r1, Repo_r20>>

RepoPool == {Repo_r10, Repo_r5, Repo_r20, Repo_nostars, Repo_tie10}

RECURSIVE ListsUpTo(_, _)
ListsUpTo(pool, n) ==
  IF n = 0 THEN {<<>>}
  ELSE LET shorter == ListsUpTo(pool, n - 1)
       IN shorter \cup {Append(s, x) : s \in shorter, x \in pool}

RepoLists == ListsUpTo(RepoPool, MaxRepos) \cup {ExampleRepos}

MaxGroupRepos == 4

\* repositories without a language (None), with an empty one, and with one
GroupingLists == ListsUpTo({Repo_r5, Repo_r1, Repo_r8}, MaxGroupRepos)

RatioRepos ==
  {Repo("x/y", stars, issues, DateTime(2022, 1, 1, 0, 0, 0, 0, UTC), NoneStr) :
     stars \in 0..MaxStars \cup {1000}, issues \in 0..MaxIssues}

\* ------------------------------------------------------------------------
\* Specification of the repository functions: one call of one function
\* ------------------------------------------------------------------------

InitRepoFns ==
  /\ NoFetch /\ NoRequests /\ NoAnalysis /\ NoSearch /\ NoFiles
  /\ pc = "call"
  /\ res = Null
  /\ \/ op = "issues_per_1k_stars" /\ arg \in RatioRepos
     \/ op = "era" /\ arg \in RepoLists
     \/ op = "find_extremes" /\ arg \in [repos : RepoLists, top_n : 0..MaxTopN]
     \/ op = "cache_round_trip" /\ arg \in RepoLists
     \/ op = "analyze_by_language" /\ arg \in RepoLists \cup GroupingLists

Call_issues_per_1k_stars ==
  /\ pc = "call"
  /\ op = "issues_per_1k_stars"
  /\ res' = issues_per_1k_stars(arg)
  /\ pc' = "done"
  /\ UNCHANGED <<callVars, files, fetchVars, requests, analyzeVars, searchVars>>

\* every place that derives an era from created_at, applied to the same list:
\* RepoMetrics.era, the partition of analyze_by_era, and, on the saved cache
\* records, the selection of the commit pipeline, the era analyze_repo gives
\* each of them and the partition of aggregate_by_era
Call_era ==
  /\ pc = "call"
  /\ op = "era"
  /\ res' = LET data == save_cache(arg).data
            IN [era |-> [i \in DOMAIN arg |-> RepoMetrics_era(arg[i])],
                by_era |-> analyze_by_era(arg),
                selection |-> commit_main_partition(data),
                analysis_era |-> [i \in DOMAIN data |->
                                    analyze_repo_era(fromisoformat(data[i].created_at.v))],
                aggregate |-> aggregate_partition([i \in DOMAIN data |->
                                CommitAnalysis(data[i].full_name.v,
                                  analyze_repo_era(fromisoformat(data[i].created_at.v)))])]
  /\ pc' = "done"
  /\ UNCHANGED <<callVars, files, fetchVars, requests, analyzeVars, searchVars>>

Call_find_extremes ==
  /\ pc = "call"
  /\ op = "find_extremes"
  /\ res' = find_extremes(arg.repos, arg.top_n)
  /\ pc' = "done"
  /\ UNCHANGED <<callVars, files, fetchVars, requests, analyzeVars, searchVars>>

\* save_cache(repos) followed by load_cache() on the file it wrote
Call_cache_round_trip ==
  /\ pc = "call"
  /\ op = "cache_round_trip"
  /\ res' = load_cache(save_cache(arg))
  /\ pc' = "done"
  /\ UNCHANGED <<callVars, files, fetchVars, requests, analyzeVars, searchVars>>

Call_analyze_by_language ==
  /\ pc = "call"
  /\ op = "analyze_by_language"
  /\ res' = analyze_by_language(arg)
  /\ pc' = "done"
  /\ UNCHANGED <<callVars, files, fetchVars, requests, analyzeVars, searchVars>>

NextRepoFns ==
  \/ Call_issues_per_1k_stars
  \/ Call_era
  \/ Call_find_extremes
  \/ Call_cache_round_trip
  \/ Call_analyze_by_language

SpecRepoFns == InitRepoFns /\ [][NextRepoFns]_vars

\* C8: issues_per_1k_stars returns 0 without dividing when stars = 0, and
\* open_issues * 1000 / stars when stars > 0.
C8_IssuesPer1kStars ==
  (pc = "done" /\ op = "issues_per_1k_stars") =>
    /\ ~IsError(res)
    /\ arg.stars = 0 => res = Frac(0, 1)
    /\ arg.stars > 0 => res.num * arg.stars = arg.open_issues * 1000 * res.den

\* a repository with open issues and no stars has been given ratio 0
C8_Witness ==
  /\ pc = "done"
  /\ op = "issues_per_1k_stars"
  /\ arg.stars = 0
  /\ arg.open_issues > 0
  /\ res = Frac(0, 1)

\* C9: save_cache followed by load_cache on the same file gives a list of the
\* same length and order whose entries have the full_name, stars, open_issues,
\* created_at and era of the entries saved.
C9_CacheRoundTrip ==
  (pc = "done" /\ op = "cache_round_trip") =>
    /\ Len(res) = Len(arg)
    /\ \A i \in DOMAIN arg :
         /\ res[i].full_name = arg[i].full_name
         /\ res[i].stars = arg[i].stars
         /\ res[i].open_issues = arg[i].open_issues
         /\ res[i].created_at = arg[i].created_at
         /\ RepoMetrics_era(res[i]) = RepoMetrics_era(arg[i])

\* five repositories, one with microseconds and one with a negative UTC
\* offset in created_at, have been saved and loaded again
C9_Witness ==
  /\ pc = "done"
  /\ op = "cache_round_trip"
  /\ arg = ExampleRepos
  /\ Len(res) = 5
  /\ res[4].created_at.microsecond = 7
  /\ res[5].created_at.tz = Offset(-300)

\* s is t in another order
IsPermutation(s, t) ==
  /\ Len(s) = Len(t)
  /\ \E f \in [DOMAIN s -> DOMAIN s] :
       /\ \A i, j \in DOMAIN s : i # j => f[i] # f[j]
       /\ \A i \in DOMAIN s : s[i] = t[f[i]]

\* C5: for every list and every n >= 0, find_extremes returns as
\* highest_debt_ratio the first min(n, len) repositories of the descending
\* sort by issues per 1000 stars and as lowest_debt_ratio the last
\* min(n, len) of that sort, smallest ratio first; n = 2 on ratios
\* [10, 5, 8, 1, 20] gives highest [20, 10] and lowest [1, 5].
C5_TopAndBottomN ==
  (pc = "done" /\ op = "find_extremes") =>
    LET sorted == SortedDescending(KeyedByRatio(arg.repos))
        len == Len(arg.repos)
        k == IF arg.top_n < len THEN arg.top_n ELSE len
        top == SubSeq(sorted, 1, k)
        bottom == Reverse(SubSeq(sorted, len - k + 1, len))
        ratios(list) == [i \in DOMAIN list |-> list[i].issues_per_1k_stars]
    IN /\ IsPermutation(sorted, arg.repos)
       /\ \A i \in 1..(len - 1) :
            ~FracLess(issues_per_1k_stars(sorted[i]), issues_per_1k_stars(sorted[i + 1]))
       /\ res.highest_debt_ratio = [i \in DOMAIN top |-> repo_summary(top[i])]
       /\ res.lowest_debt_ratio = [i \in DOMAIN bottom |-> repo_summary(bottom[i])]
       /\ (arg.repos = ExampleRepos /\ arg.top_n = 2) =>
            /\ ratios(res.highest_debt_ratio) = <<Frac(2000, 100), Frac(1000, 100)>>
            /\ ratios(res.lowest_debt_ratio) = <<Frac(100, 100), Frac(500, 100)>>

\* C7: the era is "pre-ai" iff created_at.year < 2022 and "post-ai" otherwise
\* (2022-01-01T00:00:00Z is "post-ai"); RepoMetrics.era, analyze_repo and the
\* commit pipeline's selection apply the same rule, so every repository is in
\* exactly one of the two partitions of analyze_by_era and aggregate_by_era.
C7_EraByCutoffYear ==
  (pc = "done" /\ op = "era") =>
    LET pre(list) == SelectSeq(list, LAMBDA r : r.created_at.year < 2022)
        post(list) == SelectSeq(list, LAMBDA r : ~(r.created_at.year < 2022))
        names(list) == [i \in DOMAIN list |-> list[i].full_name]
    IN /\ \A i \in DOMAIN arg :
            /\ res.era[i] = (IF arg[i].created_at.year < 2022 THEN "pre-ai" ELSE "post-ai")
            /\ res.analysis_era[i] = res.era[i]
            /\ arg[i].created_at = DateTime(2022, 1, 1, 0, 0, 0, 0, Offset(0))
                 => res.era[i] = "post-ai"
       /\ res.by_era.pre_ai = pre(arg)
       /\ res.by_era.post_ai = post(arg)
       /\ res.by_era.pre_ai_era.count + res.by_era.post_ai_era.count = Len(arg)
       /\ [i \in DOMAIN res.selection.pre_ai_repos |-> res.selection.pre_ai_repos[i].full_name.v]
            = names(pre(arg))
       /\ [i \in DOMAIN res.selection.post_ai_repos |-> res.selection.post_ai_repos[i].full_name.v]
            = names(post(arg))
       /\ [i \in DOMAIN res.aggregate.pre_ai |-> res.aggregate.pre_ai[i].repo] = names(pre(arg))
       /\ [i \in DOMAIN res.aggregate.post_ai |-> res.aggregate.post_ai[i].repo] = names(post(arg))

\* a list with the repository created at 2022-01-01T00:00:00Z and one created
\* a second earlier has been split into one pre-ai and one post-ai repository
C7_Witness ==
  /\ pc = "done"
  /\ op = "era"
  /\ arg = <<Repo_r10, Repo_r5>>
  /\ res.era = <<"pre-ai", "post-ai">>
  /\ res.by_era.post_ai = <<Repo_r5>>
  /\ Len(res.aggregate.pre_ai) = 1

\* ------------------------------------------------------------------------
\* Inputs of the commit statistics
\* ------------------------------------------------------------------------

MaxAnalyses == 3

Commit(message) == [sha |-> "c0ffee", commit |-> [message |-> message]]
CommitWithoutMessage == [sha |-> "c0ffee", commit |-> [author |-> "someone"]]
CommitWithoutCommit == [sha |-> "c0ffee"]

Analysis_pre_none == CommitAnalysis("a/r10", "pre-ai")
Analysis_post_none == CommitAnalysis("b/r5", "post-ai")

\* every commit fetched has an empty or missing message
Analysis_pre_blank ==
  AnalyzeCommits(CommitAnalysis("e/r20", "pre-ai"),
                 <<Commit(<<>>), CommitWithoutMessage, CommitWithoutCommit>>, 3)

Analysis_pre_busy ==
  AnalyzeCommits(CommitAnalysis("c/r8", "pre-ai"),
                 <<Commit(Msg_todo_fix_hack), Commit(Msg_plain), Commit(Msg_repeats)>>, 3)

Analysis_post_busy ==
  AnalyzeCommits(CommitAnalysis("d/r1", "post-ai"),
                 <<Commit(Msg_why_start), Commit(Msg_mixed)>>, 2)

\* seven debt signals in one message
Msg_many_debt ==
  <<"t", "o", "d", "o", " ", "f", "i", "x", "m", "e", " ", "h", "a", "c", "k", " ", "x", "x", "x", " ", "k", "l", "u", "d", "g", "e", " ", "u", "g", "l", "y", " ", "d", "i", "r", "t", "y">>

Msg_debt_tail ==
  <<"d", "i", "r", "t", "y", " ", "u", "g", "l", "y", " ", "k", "l", "u", "d", "g", "e">>

Analysis_pre_many ==
  AnalyzeCommits(CommitAnalysis("f/many", "pre-ai"), <<Commit(Msg_many_debt)>>, 1)

Analysis_pre_tail ==
  AnalyzeCommits(CommitAnalysis("g/tail", "pre-ai"),
                 <<Commit(Msg_debt_tail), Commit(Msg_todo_fix_hack)>>, 2)

AnalysisPool ==
  {Analysis_pre_none, Analysis_post_none, Analysis_pre_blank, Analysis_pre_busy,
   Analysis_post_busy, Analysis_pre_many, Analysis_pre_tail}

AnalysisLists == ListsUpTo(AnalysisPool, MaxAnalyses)

\* ------------------------------------------------------------------------
\* Specification of the commit statistics: one call of one function
\* ------------------------------------------------------------------------

InitStats ==
  /\ NoFetch /\ NoRequests /\ NoAnalysis /\ NoSearch /\ NoFiles
  /\ pc = "call"
  /\ res = Null
  /\ \/ op = "ratios" /\ arg \in AnalysisPool
     \/ op = "aggregate_by_era" /\ arg \in AnalysisLists

\* the five ratio properties and avg_message_length of one CommitAnalysis
Call_ratios ==
  /\ pc = "call"
  /\ op = "ratios"
  /\ res' = [debt_ratio |-> debt_ratio(arg), bug_ratio |-> bug_ratio(arg),
             revert_ratio |-> revert_ratio(arg),
             frustration_ratio |-> frustration_ratio(arg),
             positive_ratio |-> positive_ratio(arg),
             avg_message_length |-> avg_message_length(arg)]
  /\ pc' = "done"
  /\ UNCHANGED <<callVars, files, fetchVars, requests, analyzeVars, searchVars>>

Call_aggregate_by_era ==
  /\ pc = "call"
  /\ op = "aggregate_by_era"
  /\ res' = aggregate_by_era(arg)
  /\ pc' = "done"
  /\ UNCHANGED <<callVars, files, fetchVars, requests, analyzeVars, searchVars>>

NextStats == Call_ratios \/ Call_aggregate_by_era

SpecStats == InitStats /\ [][NextStats]_vars

\* an era partition that is not empty and holds only analyses without commits
OnlyZeroCommits(list) ==
  /\ list # <<>>
  /\ \A i \in DOMAIN list : list[i].total_commits = 0 /\ list[i].message_lengths = <<>>

\* the five ratio properties return 0 when total_commits = 0
C4_RatioPropertiesZero ==
  (pc = "done" /\ op = "ratios" /\ arg.total_commits = 0) =>
    /\ res.debt_ratio = Frac(0, 1)
    /\ res.bug_ratio = Frac(0, 1)
    /\ res.revert_ratio = Frac(0, 1)
    /\ res.frustration_ratio = Frac(0, 1)
    /\ res.positive_ratio = Frac(0, 1)

\* C4: with 0 commits analyzed all five per-100-commits ratios are 0 and
\* nothing is raised: the five ratio properties of a CommitAnalysis with
\* total_commits = 0 return 0, and aggregate_by_era, for an era whose
\* analyses all have total_commits = 0, returns 0 for the five *_per_100
\* values without raising.
C4_ZeroCommitsGiveZeroRatios ==
  /\ C4_RatioPropertiesZero
  /\ (pc = "done" /\ op = "aggregate_by_era") =>
       \A era \in {"pre_ai", "post_ai"} :
         OnlyZeroCommits(aggregate_partition(arg)[era]) =>
           /\ ~IsError(res)
           /\ res[era].debt_per_100.num = 0
           /\ res[era].bug_per_100.num = 0
           /\ res[era].revert_per_100.num = 0
           /\ res[era].frustration_per_100.num = 0
           /\ res[era].positive_per_100.num = 0

\* ------------------------------------------------------------------------
\* Inputs of the fetchers: arguments, and what the server may answer
\* ------------------------------------------------------------------------

MaxMaxCommits == 3
MaxLanguages == 2

\* the lengths of the pages the commit listing answers with
PageLengths == {0, 1, 2}

\* time.time() when a response is handled
Clock == {1000}

\* the rate-limit headers of a response: absent, at the threshold, and below
\* it with a reset time ahead
HeaderChoices ==
  {[remaining |-> NoHeader, reset |-> NoHeader],
   [remaining |-> Header(5), reset |-> Header(1003)],
   [remaining |-> Header(4), reset |-> Header(1003)]}

\* the n commits of page p of the commit listing
CommitPage(p, n) == [k \in 1..n |-> [sha |-> <<p, k>>]]

CommitResponses(p) ==
  {Response("ok", CommitPage(p, n), h.remaining, h.reset) : n \in PageLengths, h \in HeaderChoices}
  \cup {Response("not_ok", <<>>, remaining, NoHeader) : remaining \in {NoHeader, Header(0)}}
  \cup {Response("raises", <<>>, NoHeader, NoHeader)}

Item_r10 ==
  [name |-> "r10", full_name |-> "a/r10", stargazers_count |-> 1000, open_issues_count |-> 10,
   created_at |-> <<"2", "0", "2", "1", "-", "1", "2", "-", "3", "1", "T", "2", "3", ":", "5", "9", ":", "5", "9", "Z">>,
   updated_at |-> <<"2", "0", "2", "2", "-", "0", "1", "-", "0", "1", "T", "0", "0", ":", "0", "0", ":", "0", "0", "Z">>,
   language |-> SomeStr("python"), forks_count |-> 7]

Item_r5 ==
  [name |-> "r5", full_name |-> "b/r5", stargazers_count |-> 1000, open_issues_count |-> 5,
   created_at |-> <<"2", "0", "2", "2", "-", "0", "1", "-", "0", "1", "T", "0", "0", ":", "0", "0", ":", "0", "0", "Z">>,
   language |-> NoneStr, forks_count |-> 7]

\* a record without forks_count
Item_broken == [name |-> "x", full_name |-> "x/x", stargazers_count |-> 1, open_issues_count |-> 1,
                created_at |-> <<"2", "0", "2", "2", "-", "0", "1", "-", "0", "1", "T", "0", "0", ":", "0", "0", ":", "0", "0", "Z">>]

SearchResponses ==
  {Response("ok", <<>>, NoHeader, NoHeader),
   Response("ok", <<Item_r10, Item_r5>>, Header(5), Header(1003)),
   Response("ok", <<Item_r10, Item_broken>>, Header(4), Header(1003)),
   Response("not_ok", <<>>, Header(0), NoHeader),
   Response("raises", <<>>, NoHeader, NoHeader)}

\* the answers to the GETs of the enrichment: the two issue searches, then
\* the contributor listing
EnrichResponses(n) ==
  IF n < 2
  THEN {Response("ok", [total_count |-> 2], Header(0), Header(1003)),
        Response("ok", <<>>, NoHeader, NoHeader),
        Response("not_ok", <<>>, Header(4), NoHeader),
        Response("raises", <<>>, NoHeader, NoHeader)}
  ELSE {Response("ok", [last_page |-> Header(4), body |-> <<"c">>], Header(0), Header(1003)),
        Response("ok", [last_page |-> NoHeader, body |-> <<"c", "d">>], NoHeader, NoHeader),
        Response("not_ok", <<>>, Header(4), NoHeader),
        Response("raises", <<>>, NoHeader, NoHeader)}

\* the batches of repositories main enriches
EnrichBatches == {<<Repo_r10>>, <<Repo_r10, Repo_r5>>}

AllLanguages == <<"javascript", "python", "typescript", "java", "go", "rust">>

LanguageLists == {SubSeq(AllLanguages, 1, n) : n \in 1..MaxLanguages}

\* ------------------------------------------------------------------------
\* Specification of the fetchers: one call of fetch_commits, of
\* fetch_popular_repos or of enrich_repo_metrics, one action per HTTP GET and
\* what the caller does on its response
\* ------------------------------------------------------------------------

InitFetchers ==
  /\ NoAnalysis /\ NoFiles
  /\ requests = <<>>
  /\ res = Null
  /\ \/ /\ op = "fetch_commits"
        /\ pc = "loop"
        /\ arg \in [repo_full_name : {"a/r10"}, max_commits : 0..MaxMaxCommits]
        /\ commits = <<>>
        /\ page = 1
        /\ max_commits = arg.max_commits
        /\ NoSearch
     \/ /\ op = "fetch_popular_repos"
        /\ arg \in [min_stars : {1000}, languages : LanguageLists, max_repos : {1, 3}]
        /\ pc = "loop"
        /\ repos = <<>>
        /\ query = 0
        /\ NoFetch
     \/ /\ op = "enrich_repo_metrics"
        /\ arg \in [repos : EnrichBatches, fetch_extended : BOOLEAN]
        /\ pc = IF arg.fetch_extended THEN "loop" ELSE "return"
        /\ repos = arg.repos
        /\ query = 0
        /\ NoFetch

\* while len(commits) < max_commits: one GET of the commit listing
FetchCommitsRequest ==
  /\ op = "fetch_commits"
  /\ pc = "loop"
  /\ Len(commits) < max_commits
  /\ \E r \in CommitResponses(page), now \in Clock :
       LET st == fetch_commits_step([repo |-> arg.repo_full_name, commits |-> commits,
                                     page |-> page, requests |-> requests, pc |-> pc], r, now)
       IN /\ commits' = st.commits
          /\ page' = st.page
          /\ requests' = st.requests
          /\ pc' = st.pc
  /\ UNCHANGED <<callVars, files, res, max_commits, analyzeVars, searchVars>>

\* the loop has ended (condition false, or break)
FetchCommitsReturn ==
  /\ op = "fetch_commits"
  /\ pc = "return" \/ (pc = "loop" /\ ~(Len(commits) < max_commits))
  /\ pc' = "done"
  /\ res' = fetch_commits_return(commits, max_commits)
  /\ UNCHANGED <<callVars, files, fetchVars, requests, analyzeVars, searchVars>>

\* one search query of fetch_popular_repos
PopularReposQuery ==
  /\ op = "fetch_popular_repos"
  /\ pc = "loop"
  /\ \E r \in SearchResponses, now \in Clock :
       LET st == popular_repos_step([languages |-> arg.languages, max_repos |-> arg.max_repos,
                                     repos |-> repos, query |-> query,
                                     requests |-> requests, pc |-> pc], r, now)
       IN /\ repos' = st.repos
          /\ query' = st.query
          /\ requests' = st.requests
          /\ pc' = st.pc
  /\ UNCHANGED <<callVars, files, res, fetchVars, analyzeVars>>

\* return repos[:max_repos]
PopularReposReturn ==
  /\ op = "fetch_popular_repos"
  /\ pc = "return"
  /\ pc' = "done"
  /\ res' = PyHead(repos, arg.max_repos)
  /\ UNCHANGED <<callVars, files, fetchVars, requests, analyzeVars, searchVars>>

\* for repo in repos: enrich_repo_metrics(repo, fetch_extended=True), one GET
\* of the repository at position; behind its last GET the loop moves on
EnrichRequest ==
  /\ op = "enrich_repo_metrics"
  /\ pc = "loop"
  /\ \E r \in EnrichResponses(query) :
       LET st == enrich_step([repo |-> repos[position + 1], query |-> query,
                              requests |-> requests, pc |-> pc], r)
       IN /\ repos' = [repos EXCEPT ![position + 1] = st.repo]
          /\ requests' = st.requests
          /\ IF st.pc = "return"
             THEN /\ position' = position + 1
                  /\ query' = 0
                  /\ pc' = IF position + 1 = Len(repos) THEN "return" ELSE "loop"
             ELSE /\ position' = position
                  /\ query' = st.query
                  /\ pc' = "loop"
  /\ UNCHANGED <<callVars, files, res, fetchVars, analysis>>

\* the loop over the batch has ended; without fetch_extended every call
\* returns its repository at once
EnrichReturn ==
  /\ op = "enrich_repo_metrics"
  /\ pc = "return"
  /\ pc' = "done"
  /\ res' = repos
  /\ UNCHANGED <<callVars, files, fetchVars, requests, analyzeVars, searchVars>>

NextFetchers ==
  \/ FetchCommitsRequest
  \/ FetchCommitsReturn
  \/ PopularReposQuery
  \/ PopularReposReturn
  \/ EnrichRequest
  \/ EnrichReturn

SpecFetchers == InitFetchers /\ [][NextFetchers]_vars

\* ------------------------------------------------------------------------
\* Properties of the fetchers
\* ------------------------------------------------------------------------

RECURSIVE PagesBeforeFailure(_)
\* the commits of the pages of a request log, in page order, up to its first
\* empty, non-success or throwing page
PagesBeforeFailure(log) ==
  IF log = <<>> THEN <<>>
  ELSE IF Head(log).status # "ok" \/ Head(log).data = <<>> THEN <<>>
  ELSE Head(log).data \o PagesBeforeFailure(Tail(log))

\* C1: fetch_commits requests pages 1, 2, 3, ... in order with page size 100;
\* no page is requested once max_commits commits have been accumulated; the
\* result is the concatenation, in page order, of the pages fetched before
\* the first empty, non-success or throwing page, cut to its first
\* max_commits elements, so it never has more than max_commits commits.
C1_PagesInOrderTruncated ==
  op = "fetch_commits" =>
    /\ \A i \in DOMAIN requests :
         /\ requests[i].endpoint = "commits"
         /\ requests[i].page = i
         /\ requests[i].per_page = 100
         /\ Len(PagesBeforeFailure(SubSeq(requests, 1, i - 1))) < max_commits
    /\ pc = "done" =>
         LET fetched == PagesBeforeFailure(requests)
             kept == IF Len(fetched) < max_commits THEN Len(fetched) ELSE max_commits
         IN /\ Len(res) <= max_commits
            /\ res = [k \in 1..kept |-> fetched[k]]

\* fetch_commits has returned after two or more pages that together held more
\* than max_commits commits
C1_Witness ==
  /\ op = "fetch_commits"
  /\ pc = "done"
  /\ Len(requests) >= 2
  /\ max_commits > 0
  /\ Len(PagesBeforeFailure(requests)) > max_commits
  /\ Len(res) = max_commits

\* C2: every GET whose response (a success or a non-success) reports a
\* remaining quota below 5 is followed by a rate-limit sleep of the caller
\* before the next GET and before the fetch returns.
C2_LowQuotaAlwaysSleeps ==
  \A i \in DOMAIN requests :
    (requests[i].status # "raises" /\ requests[i].remaining < 5) => requests[i].wait >= 1

RECURSIVE ReposOfQueries(_)
\* the repositories of a log of search queries: the parsed items of each query
\* that succeeded, nothing for a query that raised
ReposOfQueries(log) ==
  IF log = <<>> THEN <<>>
  ELSE LET entry == Head(log)
           failed == \/ entry.status # "ok"
                     \/ \E i \in DOMAIN entry.data : ParseRepoRaises(entry.data[i])
       IN (IF failed THEN <<>> ELSE [i \in DOMAIN entry.data |-> parse_repo(entry.data[i])])
          \o ReposOfQueries(Tail(log))

\* C3: an error during pagination ends the data and is never fatal. No error
\* leaves a fetch (pc is never "raised"). In fetch_commits a non-success or
\* throwing page k is the last request, and the commits accumulated, and then
\* returned, are those of pages 1..k-1. In fetch_popular_repos the queries go
\* out in their order whatever failed before, the accumulated repositories
\* are exactly those of the queries that succeeded, and the fetch ends only
\* behind the last query or on the max_repos test behind a post-AI query,
\* never because a query failed.
C3_ErrorsEndDataQuietly ==
  /\ pc # "raised"
  /\ op = "fetch_commits" =>
       \A k \in DOMAIN requests :
         requests[k].status # "ok" =>
           /\ k = Len(requests)
           /\ pc \in {"return", "done"}
           /\ commits = PagesBeforeFailure(SubSeq(requests, 1, k - 1))
           /\ pc = "done" => res = commits
  /\ op = "fetch_popular_repos" =>
       /\ \A i \in DOMAIN requests : requests[i].target = SearchQuery(arg.languages, i - 1)
       /\ repos = ReposOfQueries(requests)
       /\ pc \in {"return", "done"} =>
            \/ Len(requests) = 2 * Len(arg.languages)
            \/ Len(requests) % 2 = 0 /\ Len(repos) >= arg.max_repos
       /\ pc = "done" =>
            res = [k \in 1..(IF Len(repos) < arg.max_repos THEN Len(repos) ELSE arg.max_repos) |-> repos[k]]

\* fetch_popular_repos has returned repositories although a query failed
\* between one that had delivered repositories and a later one
C3_Witness ==
  /\ op = "fetch_popular_repos"
  /\ pc = "done"
  /\ res # <<>>
  /\ \E i, j, k \in DOMAIN requests :
       /\ i < j /\ j < k
       /\ ReposOfQueries(<<requests[i]>>) # <<>>
       /\ requests[j].status # "ok"
       /\ requests[k].status = "ok"

\* ------------------------------------------------------------------------
\* Inputs of analyze_repo: the commit lists fetch_commits may hand over
\* ------------------------------------------------------------------------

MaxCommits == 22

\* a message whose first line, "hack xxx...", is longer than the sample width
Msg_long_line ==
  <<"h", "a", "c", "k", " ">> \o [i \in 1..SAMPLE_LINE_LENGTH |-> "x"] \o <<"\n", "b", "o", "d", "y">>

\* every commit triggers a sample
Cycle_all == <<Commit(Msg_todo_fix_hack), Commit(Msg_spaces)>>

\* every second commit triggers a sample
Cycle_half == <<Commit(Msg_why_start), Commit(Msg_plain)>>

\* commits without a message between the triggering ones
Cycle_gaps ==
  <<Commit(Msg_why_line2), CommitWithoutMessage, Commit(Msg_mixed), Commit(<<>>),
    Commit(Msg_positive), CommitWithoutCommit>>

\* n commits that repeat the cycle
Repeated(cycle, n) == [i \in 1..n |-> cycle[((i - 1) % Len(cycle)) + 1]]

\* the lists of MaxCommits commits: a cycle, or the long message and then
\* only triggering ones; and the empty list
CommitLists ==
  {Repeated(cycle, n) : cycle \in {Cycle_all, Cycle_half, Cycle_gaps}, n \in {0, MaxCommits}}
  \cup {<<Commit(Msg_long_line)>> \o Repeated(Cycle_all, MaxCommits - 1)}

\* ------------------------------------------------------------------------
\* Specification of analyze_repo: the fetch, then one action per commit
\* ------------------------------------------------------------------------

InitAnalyze ==
  /\ op = "analyze_repo"
  /\ arg \in [repo_full_name : {"a/r10"}, created_at : {Repo_r10.created_at, Repo_r5.created_at}]
  /\ analysis = CommitAnalysis(arg.repo_full_name, analyze_repo_era(arg.created_at))
  /\ position = 0
  /\ commits = <<>>
  /\ page = 0
  /\ max_commits = ANALYZE_MAX_COMMITS
  /\ pc = "fetch"
  /\ res = Null
  /\ NoRequests /\ NoSearch /\ NoFiles

\* commits = fetch_commits(repo_full_name, max_commits=500)
AnalyzeFetch ==
  /\ op = "analyze_repo"
  /\ pc = "fetch"
  /\ \E fetched \in CommitLists : commits' = fetch_commits_return(fetched, max_commits)
  /\ pc' = "loop"
  /\ UNCHANGED <<callVars, files, res, page, max_commits, requests, analyzeVars, searchVars>>

\* for commit in commits: the next commit
AnalyzeCommit ==
  /\ op = "analyze_repo"
  /\ pc = "loop"
  /\ position < Len(commits)
  /\ analysis' = analyze_commit(analysis, commits[position + 1])
  /\ position' = position + 1
  /\ UNCHANGED <<callVars, files, res, pc, fetchVars, requests, searchVars>>

\* return analysis
AnalyzeReturn ==
  /\ op = "analyze_repo"
  /\ pc = "loop"
  /\ position = Len(commits)
  /\ res' = analysis
  /\ pc' = "done"
  /\ UNCHANGED <<callVars, files, fetchVars, requests, analyzeVars, searchVars>>

NextAnalyze ==
  \/ AnalyzeFetch
  \/ AnalyzeCommit
  \/ AnalyzeReturn

SpecAnalyze == InitAnalyze /\ [][NextAnalyze]_vars

\* the message triggered a debt or a frustration signal
TriggersSample(message) ==
  LET signals == analyze_message(message)
  IN signals.debt # EmptyCounter \/ signals.frustration # EmptyCounter

RECURSIVE TriggeringFirstLines(_, _)
\* of the first n commits of a list, in their order: the first line, cut to
\* 100 characters, of every non-empty message that triggered
TriggeringFirstLines(commit_list, n) ==
  IF n = 0 THEN <<>>
  ELSE LET message == CommitMessage(commit_list[n])
           line == FirstLine(message)
           width == IF Len(line) < 100 THEN Len(line) ELSE 100
           before == TriggeringFirstLines(commit_list, n - 1)
       IN IF message # <<>> /\ TriggersSample(message)
          THEN Append(before, [k \in 1..width |-> line[k]])
          ELSE before

\* the sample list is the first 20, at most, of the triggering first lines
\* of the commits processed so far
C6_SamplesState ==
  LET samples == analysis.sample_messages
      expected == TriggeringFirstLines(commits, position)
      kept == IF Len(expected) < 20 THEN Len(expected) ELSE 20
  IN /\ Len(samples) <= 20
     /\ \A i \in DOMAIN samples : Len(samples[i]) <= 100
     /\ samples = [k \in 1..kept |-> expected[k]]

\* C6: while analyze_repo processes commits, sample_messages has at most 20
\* entries, each at most 100 characters long and the first line (cut to 100)
\* of a processed message that triggered a debt or frustration signal, in
\* commit encounter order; and once the list holds 20 entries no step
\* changes it.
C6_SamplesCapped ==
  /\ [](op = "analyze_repo" => C6_SamplesState)
  /\ [][(op = "analyze_repo" /\ Len(analysis.sample_messages) = 20)
          => analysis'.sample_messages = analysis.sample_messages]_vars

\* the list is full, holds an entry cut to 100 characters, and a further
\* triggering commit has been processed
C6_Witness ==
  /\ op = "analyze_repo"
  /\ Len(analysis.sample_messages) = 20
  /\ \E i \in DOMAIN analysis.sample_messages : Len(analysis.sample_messages[i]) = 100
  /\ Len(TriggeringFirstLines(commits, position)) > 20

\* the tally map of a category in a CommitAnalysis, and the key of its top
\* list in the statistics of an era
SignalField(category) ==
  CASE category = "debt" -> "debt_signals"
    [] category = "bug" -> "bug_signals"
    [] category = "revert" -> "revert_signals"
    [] category = "frustration" -> "frustration_signals"
    [] category = "positive" -> "positive_signals"

TopKey(category) ==
  CASE category = "debt" -> "top_debt_signals"
    [] category = "bug" -> "top_bug_signals"
    [] category = "revert" -> "top_revert_signals"
    [] category = "frustration" -> "top_frustration_signals"
    [] category = "positive" -> "top_positive_signals"

RECURSIVE SummedCount(_, _, _, _)
\* the count of a signal name summed over the first n analyses
SummedCount(list, field, name, n) ==
  IF n = 0 THEN 0 ELSE SummedCount(list, field, name, n - 1) + Count(list[n][field], name)

RECURSIVE EncounterOrder(_, _, _)
\* the signal names of the first n analyses in the order they are met
EncounterOrder(list, field, n) ==
  IF n = 0 THEN <<>>
  ELSE EncounterOrder(list, field, n - 1) \o [i \in DOMAIN list[n][field] |-> list[n][field][i].name]

\* top lists the up-to-five names with the highest summed count, highest
\* first, equal counts in the order the names were first met
TopFiveOf(list, field, top) ==
  LET order == EncounterOrder(list, field, Len(list))
      names == Range(order)
      Total(x) == SummedCount(list, field, x, Len(list))
      FirstMet(x) == CHOOSE i \in DOMAIN order : order[i] = x /\ \A j \in 1..(i - 1) : order[j] # x
      Before(x, y) == Total(x) > Total(y) \/ (Total(x) = Total(y) /\ FirstMet(x) < FirstMet(y))
  IN /\ Len(top) = (IF Cardinality(names) < 5 THEN Cardinality(names) ELSE 5)
     /\ \A i \in DOMAIN top : top[i].name \in names /\ top[i].count = Total(top[i].name)
     /\ \A i, j \in DOMAIN top : i < j => Before(top[i].name, top[j].name)
     /\ \A x \in names \ {top[i].name : i \in DOMAIN top} :
          \A i \in DOMAIN top : Before(top[i].name, x)

\* the statistics of an era hold the summed commit count and, for each of the
\* given categories, the top list of the summed tallies
EraTotalsAndTops(part, stats, categories) ==
  /\ stats.total_commits = SumTotalCommits(part, Len(part))
  /\ \A c \in categories :
       /\ TopKey(c) \in DOMAIN stats
       /\ TopFiveOf(part, SignalField(c), stats[TopKey(c)])

\* what aggregate_by_era does report: whenever it returns, the sums and the
\* top lists of debt, bug and frustration of every era with an analysis
C12_ThreeTopLists ==
  (pc = "done" /\ op = "aggregate_by_era" /\ ~IsError(res)) =>
    \A era \in {"pre_ai", "post_ai"} :
      aggregate_partition(arg)[era] # <<>> =>
        EraTotalsAndTops(aggregate_partition(arg)[era], res[era], {"debt", "bug", "frustration"})

\* C12: for each era with at least one analysis, aggregate_by_era sums the
\* commit counts and the per-signal tallies over the era's repositories and
\* reports, for each of the five categories debt, bug, revert, frustration
\* and positive, the up-to-five signal names with the highest summed count,
\* highest first, equal counts in first-encountered order.
C12_TopFivePerCategory ==
  (pc = "done" /\ op = "aggregate_by_era") =>
    \A era \in {"pre_ai", "post_ai"} :
      aggregate_partition(arg)[era] # <<>> =>
        /\ ~IsError(res)
        /\ EraTotalsAndTops(aggregate_partition(arg)[era], res[era], Categories)

\* C13: in fetch_popular_repos the search of each language and era filter is
\* repeated page after page (page 1, 2, ...) until the server returns an
\* empty page or max_repos repositories are reached: a GET that brought a
\* non-empty page while fewer than max_repos repositories are accumulated is
\* followed by the GET of the next page of the same filter; and the fetch
\* returns at most max_repos repositories.
C13_SearchPagedUntilEmpty ==
  op = "fetch_popular_repos" =>
    /\ \A i \in DOMAIN requests :
         (/\ requests[i].status = "ok"
          /\ requests[i].data # <<>>
          /\ Len(ReposOfQueries(SubSeq(requests, 1, i))) < arg.max_repos
          /\ i < Len(requests)) =>
            /\ requests[i + 1].target = requests[i].target
            /\ requests[i + 1].page = requests[i].page + 1
    /\ pc = "done" => Len(res) <= arg.max_repos

\* what fetch_popular_repos does: one GET, of page 1 with page size 30, per
\* language and era filter; and at most max_repos repositories returned
C13_OnePagePerFilter ==
  op = "fetch_popular_repos" =>
    /\ \A i \in DOMAIN requests :
         /\ requests[i].page = 1
         /\ requests[i].per_page = 30
         /\ requests[i].target = SearchQuery(arg.languages, i - 1)
    /\ pc = "done" => Len(res) <= arg.max_repos

\* the entries of a request log for one endpoint of one repository
RepoRequests(log, full_name, endpoint) ==
  SelectSeq(log, LAMBDA e : e.target = full_name /\ e.endpoint = endpoint)

SomeFailed(log) == \E i \in DOMAIN log : log[i].status # "ok"

\* C14: enrichment is best-effort per repository: with fetch_extended=True
\* nothing is raised to the caller, every repository of the batch gets its
\* issue-count and contributor requests whatever failed before, a failure
\* (exception or non-success) of an issue-count request leaves the
\* repository's total_issues and closed_issues at zero, and a failure of the
\* contributor request leaves its contributors at zero.
C14_FailuresDegradeToZero ==
  (op = "enrich_repo_metrics" /\ arg.fetch_extended) =>
    /\ pc # "raised"
    /\ pc = "done" =>
         \A k \in DOMAIN res :
           LET issues == RepoRequests(requests, res[k].full_name, "issues")
               contributors == RepoRequests(requests, res[k].full_name, "contributors")
           IN /\ issues # <<>>
              /\ contributors # <<>>
              /\ SomeFailed(issues) => (res[k].total_issues = 0 /\ res[k].closed_issues = 0)
              /\ SomeFailed(contributors) => res[k].contributors = 0

\* what the enrichment does: nothing is raised, every repository of the batch
\* gets its requests, an exception in an issue-count request zeroes both
\* issue fields, a non-success answer counts as 0 issues of its state only,
\* and a failed contributor request gives 0 contributors
C14_BestEffortPerRequest ==
  (op = "enrich_repo_metrics" /\ arg.fetch_extended) =>
    /\ pc # "raised"
    /\ pc = "done" =>
         \A k \in DOMAIN res :
           LET issues == RepoRequests(requests, res[k].full_name, "issues")
               contributors == RepoRequests(requests, res[k].full_name, "contributors")
               raised == \E i \in DOMAIN issues : issues[i].status = "raises"
           IN /\ issues # <<>>
              /\ Len(contributors) = 1
              /\ raised => (res[k].total_issues = 0 /\ res[k].closed_issues = 0)
              /\ ~raised =>
                   /\ Len(issues) = 2
                   /\ res[k].closed_issues = IssueCount(issues[2])
                   /\ res[k].total_issues = IssueCount(issues[1]) + IssueCount(issues[2])
              /\ SomeFailed(contributors) => res[k].contributors = 0


\* ------------------------------------------------------------------------
\* Inputs of the two main functions: repo_cache.json as a run may find it,
\* the command line, and the answers of the server
\* ------------------------------------------------------------------------

MainMaxRepos == 2

\* a file that json.load cannot parse
MalformedCacheFile == [exists |-> TRUE, valid_json |-> FALSE, data |-> <<>>]

\* the record without one of its keys
Without(record, key) == [k \in DOMAIN record \ {key} |-> record[k]]

Cache_valid == save_cache(<<Repo_r10, Repo_r5>>)
Cache_empty_list == CacheFile(<<>>)
Cache_no_forks == CacheFile(<<Cache_valid.data[1], Without(Cache_valid.data[2], "forks")>>)
Cache_no_created_at == CacheFile(<<Cache_valid.data[1], Without(Cache_valid.data[2], "created_at")>>)
Cache_no_stars == CacheFile(<<Cache_valid.data[1], Without(Cache_valid.data[2], "stars")>>)
Cache_no_full_name == CacheFile(<<Cache_valid.data[1], Without(Cache_valid.data[2], "full_name")>>)
Cache_bad_timestamp ==
  CacheFile(<<Cache_valid.data[1],
              [Cache_valid.data[2] EXCEPT !.created_at = JStr(<<"s", "o", "o", "n">>)]>>)

CacheFiles ==
  {NoCacheFile, MalformedCacheFile, Cache_empty_list, Cache_valid, Cache_no_forks,
   Cache_no_created_at, Cache_no_stars, Cache_no_full_name, Cache_bad_timestamp}

\* --extended, --enrich-top N, or neither
EnrichOptions ==
  {[extended |-> FALSE, enrich_top |-> 0],
   [extended |-> TRUE, enrich_top |-> 0],
   [extended |-> FALSE, enrich_top |-> 1]}

\* the searches of a run answer with two repositories or fail
MainSearchResponses == {r \in SearchResponses : r.remaining = Header(5) \/ r.status = "raises"}

\* the enrichment GETs of a run answer with a count or fail
MainEnrichResponses(n) == {r \in EnrichResponses(n) : r.reset.present \/ r.status = "raises"}

\* ------------------------------------------------------------------------
\* main of the repository metrics pipeline
\* ------------------------------------------------------------------------

\* the positions in repos of the repositories main enriches, in the order
\* of the loop: all with --extended, else the enrich_top first of
\* sorted(repos, key=lambda r: r.stars, reverse=True)
EnrichTargets(repo_list, args) ==
  IF args.extended THEN [i \in DOMAIN repo_list |-> i]
  ELSE IF args.enrich_top > 0
  THEN PyHead(SortedDescending([i \in DOMAIN repo_list |->
                                  [key |-> Frac(repo_list[i].stars, 1), item |-> i]]),
              args.enrich_top)
  ELSE <<>>

\* what the cache section of main leaves in repos before any fetch
main_cached_repos(use_cache, file) == IF use_cache THEN load_cache(file) ELSE <<>>

InitDebtMain ==
  /\ op = "debt_main"
  /\ \E use_cache \in BOOLEAN, enrich \in EnrichOptions :
       arg = [use_cache |-> use_cache, extended |-> enrich.extended,
              enrich_top |-> enrich.enrich_top, min_stars |-> 1000, max_repos |-> MainMaxRepos]
  /\ files \in [repo_cache : CacheFiles, written : {{}}]
  /\ pc = "cache"
  /\ res = Null
  /\ NoFetch /\ NoRequests /\ NoAnalysis /\ NoSearch

\* repos = []; if args.use_cache: repos = load_cache()
DebtMainCache ==
  /\ op = "debt_main"
  /\ pc = "cache"
  /\ repos' = main_cached_repos(arg.use_cache, files.repo_cache)
  /\ pc' = IF repos' = <<>> THEN "fetch" ELSE "enrich"
  /\ UNCHANGED <<callVars, files, res, fetchVars, requests, analyzeVars, query>>

\* if not repos: repos = fetch_popular_repos(...); save_cache(repos) -- one
\* search query of fetch_popular_repos with its default languages, and
\* behind the last one the return and the save
DebtMainFetch ==
  /\ op = "debt_main"
  /\ pc = "fetch"
  /\ \E r \in MainSearchResponses, now \in Clock :
       LET st == popular_repos_step([languages |-> AllLanguages, max_repos |-> arg.max_repos,
                                     repos |-> repos, query |-> query,
                                     requests |-> requests, pc |-> "loop"], r, now)
           fetched == PyHead(st.repos, arg.max_repos)
       IN /\ requests' = st.requests
          /\ IF st.pc = "return"
             THEN /\ repos' = fetched
                  /\ query' = 0
                  /\ files' = [files EXCEPT !.repo_cache = save_cache(fetched),
                                            !.written = @ \cup {"repo_cache.json"}]
                  /\ pc' = "enrich"
             ELSE /\ repos' = st.repos
                  /\ query' = st.query
                  /\ files' = files
                  /\ pc' = "fetch"
  /\ UNCHANGED <<callVars, res, fetchVars, analyzeVars>>

\* one GET of enrich_repo_metrics(repo, fetch_extended=True) in the loop of
\* --extended or of --enrich-top
DebtMainEnrichRequest ==
  /\ op = "debt_main"
  /\ pc = "enrich"
  /\ position < Len(EnrichTargets(repos, arg))
  /\ \E r \in MainEnrichResponses(query) :
       LET target == EnrichTargets(repos, arg)[position + 1]
           st == enrich_step([repo |-> repos[target], query |-> query,
                              requests |-> requests, pc |-> "loop"], r)
       IN /\ repos' = [repos EXCEPT ![target] = st.repo]
          /\ requests' = st.requests
          /\ IF st.pc = "return"
             THEN position' = position + 1 /\ query' = 0
             ELSE position' = position /\ query' = st.query
  /\ UNCHANGED <<callVars, files, res, fetchVars, analysis, pc>>

\* the enrichment loop has ended: save_cache(repos) if there was one
DebtMainEnrichDone ==
  /\ op = "debt_main"
  /\ pc = "enrich"
  /\ position = Len(EnrichTargets(repos, arg))
  /\ files' = IF arg.extended \/ arg.enrich_top > 0
              THEN [files EXCEPT !.repo_cache = save_cache(repos),
                                 !.written = @ \cup {"repo_cache.json"}]
              ELSE files
  /\ pc' = "report"
  /\ UNCHANGED <<callVars, res, fetchVars, requests, analyzeVars, searchVars>>

\* generate_report, the two output files, the quick summary
DebtMainReport ==
  /\ op = "debt_main"
  /\ pc = "report"
  /\ files' = [files EXCEPT !.written = @ \cup {"debt_analysis_report.md", "debt_analysis_data.json"}]
  /\ pc' = "done"
  /\ UNCHANGED <<callVars, res, fetchVars, requests, analyzeVars, searchVars>>

NextDebtMain ==
  \/ DebtMainCache
  \/ DebtMainFetch
  \/ DebtMainEnrichRequest
  \/ DebtMainEnrichDone
  \/ DebtMainReport

SpecDebtMain == InitDebtMain /\ [][NextDebtMain]_vars

\* ------------------------------------------------------------------------
\* Properties of the cache section of the repository metrics main
\* ------------------------------------------------------------------------

\* the cache file is missing, is not JSON, or has a record without a key
\* that load_cache subscripts
CacheLoadError(file) ==
  \/ ~file.exists
  \/ ~file.valid_json
  \/ \E i \in DOMAIN file.data : ~(RequiredCacheKeys \subseteq DOMAIN file.data[i])

\* main with --use-cache has loaded the cache and done nothing else yet
JustLoaded ==
  /\ op = "debt_main"
  /\ arg.use_cache
  /\ pc \in {"fetch", "enrich"}
  /\ requests = <<>>
  /\ files.written = {}

SearchRequests(log) == SelectSeq(log, LAMBDA entry : entry.endpoint = "search")

C15_LoadState ==
  /\ op = "debt_main" => pc # "raised"
  /\ JustLoaded =>
       /\ CacheLoadError(files.repo_cache) => repos = <<>>
       /\ repos = <<>> \/ Len(repos) = Len(files.repo_cache.data)
       /\ repos = <<>> <=> pc = "fetch"
  /\ op = "debt_main" /\ pc \in {"enrich", "report", "done"} =>
       IF SearchRequests(requests) = <<>>
       THEN arg.use_cache /\ repos # <<>>
       ELSE "repo_cache.json" \in files.written

C15_FetchStep ==
  op = "debt_main" /\ pc = "fetch" =>
    /\ requests' = Append(requests, requests'[Len(requests')])
    /\ requests'[Len(requests')].endpoint = "search"
    /\ \/ pc' = "fetch" /\ files' = files
       \/ /\ pc' = "enrich"
          /\ repos' = PyHead(ReposOfQueries(requests'), arg.max_repos)
          /\ files'.repo_cache = save_cache(repos')
          /\ "repo_cache.json" \in files'.written

\* C15: a cache load error of the repository metrics pipeline (missing file,
\* malformed JSON, a record without a required key) gives the empty list:
\* main never sees an exception and never a part of the records, load_cache
\* returns none or all of them. With --use-cache an empty load result always
\* leads to the fetch: every step from there is a search request of
\* fetch_popular_repos until its result, cut to max_repos, is in repos and
\* save_cache has written exactly that result; main gets past the cache
\* section without a search only with a non-empty cache.
C15_CacheErrorsGiveFreshFetch == []C15_LoadState /\ [][C15_FetchStep]_vars

\* with --use-cache the cache, whose second record has no "forks", loaded as
\* the empty list, and the fresh fetch has delivered repositories
C15_Witness ==
  /\ op = "debt_main"
  /\ arg.use_cache
  /\ pc = "fetch"
  /\ files.repo_cache = Cache_no_forks
  /\ query > 0
  /\ repos # <<>>

\* ------------------------------------------------------------------------
\* main of the commit signal pipeline
\* ------------------------------------------------------------------------

\* the first page of a commit listing has one commit, with or without a
\* message, or fails; the next page is empty or fails
NlpCommitResponses(p) ==
  IF p = 1
  THEN {Response("ok", <<Commit(Msg_todo_fix_hack)>>, NoHeader, NoHeader),
        Response("ok", <<CommitWithoutMessage>>, NoHeader, NoHeader),
        Response("raises", <<>>, NoHeader, NoHeader)}
  ELSE {Response("ok", <<>>, NoHeader, NoHeader),
        Response("raises", <<>>, NoHeader, NoHeader)}

\* json.load(f), the two list comprehensions over r["created_at"] or the two
\* sorts by x["stars"] raise; none of them is inside a try
NlpCacheRaises(file) ==
  \/ ~file.valid_json
  \/ \E i \in DOMAIN file.data :
       \/ "created_at" \notin DOMAIN file.data[i]
       \/ file.data[i].created_at.t # "str"
       \/ IsError(fromisoformat(file.data[i].created_at.v))
  \/ \E i \in DOMAIN file.data : "stars" \notin DOMAIN file.data[i]

\* the records sorted by x["stars"], highest first
SortedByStars(records) ==
  SortedDescending([i \in DOMAIN records |->
                      [key |-> Frac(JIntValue(records[i].stars), 1), item |-> records[i]]])

\* selected_repos = pre_ai_repos[:sample_size] + post_ai_repos[:sample_size]
selected_repos(data, max_repos) ==
  LET parts == commit_main_partition(data)
      sample_size == max_repos \div 2
  IN PyHead(SortedByStars(parts.pre_ai_repos), sample_size)
     \o PyHead(SortedByStars(parts.post_ai_repos), sample_size)

InitNlpMain ==
  /\ op = "nlp_main"
  /\ arg = [max_repos |-> MainMaxRepos]
  /\ files \in [repo_cache : CacheFiles, written : {{}}]
  /\ pc = "cache"
  /\ res = Null
  /\ analysis = <<>>
  /\ position = 0
  /\ NoFetch /\ NoRequests /\ NoSearch

\* from the os.path.exists test to selected_repos: return without a cache
\* file, an uncaught exception on a file that does not load
NlpMainCache ==
  /\ op = "nlp_main"
  /\ pc = "cache"
  /\ IF ~files.repo_cache.exists
     THEN pc' = "done" /\ repos' = repos
     ELSE IF NlpCacheRaises(files.repo_cache)
     THEN pc' = "raised" /\ repos' = repos
     ELSE pc' = "loop" /\ repos' = selected_repos(files.repo_cache.data, arg.max_repos)
  /\ UNCHANGED <<callVars, files, res, fetchVars, requests, analyzeVars, query>>

\* the head of one iteration of the loop over selected_repos, up to the
\* call of fetch_commits(repo_full_name, max_commits=500) in analyze_repo
NlpMainRepo ==
  /\ op = "nlp_main"
  /\ pc = "loop"
  /\ position < Len(repos)
  /\ IF "full_name" \notin DOMAIN repos[position + 1]
     THEN pc' = "raised" /\ UNCHANGED fetchVars
     ELSE /\ pc' = "fetch"
          /\ commits' = <<>>
          /\ page' = 1
          /\ max_commits' = ANALYZE_MAX_COMMITS
  /\ UNCHANGED <<callVars, files, res, requests, analyzeVars, searchVars>>

\* one GET of fetch_commits
NlpMainFetch ==
  /\ op = "nlp_main"
  /\ pc = "fetch"
  /\ \E r \in NlpCommitResponses(page), now \in Clock :
       LET st == fetch_commits_step([repo |-> repos[position + 1].full_name.v, commits |-> commits,
                                     page |-> page, requests |-> requests, pc |-> "loop"], r, now)
       IN /\ commits' = st.commits
          /\ page' = st.page
          /\ requests' = st.requests
          /\ pc' = IF st.pc = "return" \/ ~(Len(st.commits) < max_commits)
                   THEN "analyze" ELSE "fetch"
  /\ UNCHANGED <<callVars, files, res, max_commits, analyzeVars, searchVars>>

\* the for loop of analyze_repo over the fetched commits, and
\* analyses.append(analysis)
NlpMainAnalyze ==
  /\ op = "nlp_main"
  /\ pc = "analyze"
  /\ LET record == repos[position + 1]
         fetched == fetch_commits_return(commits, max_commits)
         fresh == CommitAnalysis(record.full_name.v,
                                 analyze_repo_era(fromisoformat(record.created_at.v)))
     IN analysis' = Append(analysis, AnalyzeCommits(fresh, fetched, Len(fetched)))
  /\ position' = position + 1
  /\ commits' = <<>>
  /\ page' = 0
  /\ max_commits' = 0
  /\ pc' = "loop"
  /\ UNCHANGED <<callVars, files, res, requests, searchVars>>

\* behind the loop: generate_nlp_report, whose aggregate_by_era may raise,
\* then the report file, the data file and the quick summary
NlpMainReport ==
  /\ op = "nlp_main"
  /\ pc = "loop"
  /\ position = Len(repos)
  /\ IF IsError(aggregate_by_era(analysis))
     THEN pc' = "raised" /\ files' = files
     ELSE /\ pc' = "done"
          /\ files' = [files EXCEPT !.written = @ \cup {"nlp_analysis_report.md", "nlp_analysis_data.json"}]
  /\ UNCHANGED <<callVars, res, fetchVars, requests, analyzeVars, searchVars>>

NextNlpMain ==
  \/ NlpMainCache
  \/ NlpMainRepo
  \/ NlpMainFetch
  \/ NlpMainAnalyze
  \/ NlpMainReport

SpecNlpMain == InitNlpMain /\ [][NextNlpMain]_vars

\* ------------------------------------------------------------------------
\* Properties of the commit signal main
\* ------------------------------------------------------------------------

\* C16 (what holds): without repo_cache.json main returns at once: no HTTP
\* request is issued and no file is written.
C16_MissingCacheReturnsEarly ==
  op = "nlp_main" /\ ~files.repo_cache.exists /\ pc # "cache" =>
    pc = "done" /\ requests = <<>> /\ files.written = {}

\* C16: the only condition that aborts the commit signal pipeline is a
\* missing repo_cache.json, where main returns before any HTTP request and
\* before writing a file; with a cache file present, however malformed or
\* incomplete, and whatever the commit fetches answer, the run is never
\* aborted by an exception.
C16_OnlyMissingCacheAborts ==
  /\ C16_MissingCacheReturnsEarly
  /\ op = "nlp_main" => pc # "raised"

\* ------------------------------------------------------------------------
\* analyze_repo on listings up to and beyond the limit of fetch_commits
\* ------------------------------------------------------------------------

Msg_fix == <<"f", "i", "x">>

\* more commits than fetch_commits(max_commits=500) hands on, every tenth
\* without a message
OverlongListing ==
  [i \in 1..(ANALYZE_MAX_COMMITS + MaxCommits) |->
     IF i % 10 = 0 THEN CommitWithoutMessage ELSE Commit(Msg_fix)]

\* exactly as many commits as the limit, all with a message
FullListing == [i \in 1..ANALYZE_MAX_COMMITS |-> Commit(Msg_todo_fix_hack)]

\* commits = fetch_commits(repo_full_name, max_commits=500) on any listing
AnalyzeFetchAny ==
  /\ op = "analyze_repo"
  /\ pc = "fetch"
  /\ \E fetched \in CommitLists \cup {OverlongListing, FullListing} :
       commits' = fetch_commits_return(fetched, max_commits)
  /\ pc' = "loop"
  /\ UNCHANGED <<callVars, files, res, page, max_commits, requests, analyzeVars, searchVars>>

NextAnalyzeAny ==
  \/ AnalyzeFetchAny
  \/ AnalyzeCommit
  \/ AnalyzeReturn

SpecAnalyzeAny == InitAnalyze /\ [][NextAnalyzeAny]_vars

\* the commits among the first n of the list that have a non-empty message
WithMessage(commit_list, n) == {i \in 1..n : CommitMessage(commit_list[i]) # <<>>}

TallyFields ==
  {"debt_signals", "bug_signals", "revert_signals", "frustration_signals", "positive_signals"}

C17_CountsState ==
  /\ analysis.total_commits = Cardinality(WithMessage(commits, position))
  /\ analysis.total_commits = Len(analysis.message_lengths)
  /\ analysis.total_commits <= 500
  /\ \A field \in TallyFields : \A i \in DOMAIN analysis[field] :
       analysis[field][i].count <= analysis.total_commits

C17_EmptyMessageStep ==
  (/\ op = "analyze_repo"
   /\ pc = "loop"
   /\ position < Len(commits)
   /\ CommitMessage(commits[position + 1]) = <<>>)
  => analysis' = analysis

\* C17: after analyze_repo has processed any prefix of the fetched commits,
\* total_commits is the number of processed commits with a non-empty
\* message, equals len(message_lengths) and is at most 500; every signal
\* count of the five tally maps is at most total_commits; and the step over
\* a commit whose message is empty or missing changes no field of the
\* analysis.
C17_TotalCountsNonEmptyMessages ==
  /\ [](op = "analyze_repo" => C17_CountsState)
  /\ [][C17_EmptyMessageStep]_vars

\* the limit is reached: 500 commits with a message were processed, of a
\* listing that had more, with commits without a message skipped on the way
C17_Witness ==
  /\ op = "analyze_repo"
  /\ analysis.total_commits = 450
  /\ position = 500
  /\ Cardinality(WithMessage(commits, position)) < position
  /\ \E i \in DOMAIN analysis.bug_signals : analysis.bug_signals[i].count = 450

\* ------------------------------------------------------------------------
\* The rate-limit blocks of fetch_commits and search_repos on the headers
\* of one response
\* ------------------------------------------------------------------------

MaxQuota == 6
MaxDelay == 3

\* X-RateLimit-Remaining: absent, or a quota around the threshold of 5
RemainingHeaders == {NoHeader} \cup {Header(n) : n \in 0..MaxQuota}

\* X-RateLimit-Reset: absent, or a time before, at or after the clock
ResetHeaders ==
  {NoHeader} \cup {Header(now + d) : now \in Clock, d \in (0 - MaxDelay)..MaxDelay}

InitBackoff ==
  /\ NoFetch /\ NoRequests /\ NoAnalysis /\ NoSearch /\ NoFiles
  /\ pc = "call"
  /\ op = "rate_limit_wait"
  /\ arg \in [remaining : RemainingHeaders, reset : ResetHeaders, now : Clock]
  /\ res = Null

\* the rate-limit block of both fetchers on a response with these headers
Call_rate_limit_wait ==
  /\ pc = "call"
  /\ op = "rate_limit_wait"
  /\ LET r == Response("ok", <<>>, arg.remaining, arg.reset)
     IN res' = [fetch_commits |-> fetch_commits_wait(r, arg.now),
                search_repos |-> search_repos_wait(r, arg.now)]
  /\ pc' = "done"
  /\ UNCHANGED <<callVars, files, fetchVars, requests, analyzeVars, searchVars>>

NextBackoff == Call_rate_limit_wait

SpecBackoff == InitBackoff /\ [][NextBackoff]_vars

\* C18: the rate-limit wait depends on (remaining, reset, now) only. With
\* remaining < 5 the sleep lasts max(reset - now, 0) + 1 seconds, so at least
\* 1 second, also for a reset time in the past and for an absent reset
\* header, which counts as 0; with remaining >= 5, or an absent remaining
\* header, which counts as 10, there is no rate-limit sleep (wait 0). The
\* blocks of search_repos and of fetch_commits give the same wait.
C18_WaitFormula ==
  (op = "rate_limit_wait" /\ pc = "done") =>
    LET remaining == IF arg.remaining.present THEN arg.remaining.value ELSE 10
        reset == IF arg.reset.present THEN arg.reset.value ELSE 0
        ahead == reset - arg.now
    IN /\ res.search_repos = res.fetch_commits
       /\ remaining < 5 =>
            /\ res.fetch_commits = (IF ahead > 0 THEN ahead ELSE 0) + 1
            /\ res.fetch_commits >= 1
       /\ remaining >= 5 => res.fetch_commits = 0

\* the quota is low and the reset time has passed: the wait is the margin
C18_Witness ==
  /\ op = "rate_limit_wait"
  /\ pc = "done"
  /\ arg.remaining = Header(4)
  /\ arg.reset.present /\ arg.reset.value < arg.now
  /\ res.fetch_commits = 1

\* ------------------------------------------------------------------------
\* Properties of analyze_by_language
\* ------------------------------------------------------------------------

\* the group a repository belongs to: its language, "Unknown" without one
GroupKey(r) == IF ~r.language.some \/ r.language.v = "" THEN "Unknown" ELSE r.language.v

\* the positions in the list of the repositories of a group
GroupMembers(repo_list, key) == {i \in DOMAIN repo_list : GroupKey(repo_list[i]) = key}

\* C19: analyze_by_language has an entry for exactly the language groups of
\* at least 3 repositories, repositories without a language (None or empty)
\* counting as the group "Unknown"; there is one entry per such group, its
\* count is the size of the group, and a group of 1 or 2 repositories has
\* no entry.
C19_GroupsOfThreeOrMore ==
  (op = "analyze_by_language" /\ pc = "done") =>
    LET keys == {GroupKey(arg[i]) : i \in DOMAIN arg}
        reported == {res[i].language : i \in DOMAIN res}
    IN /\ reported = {key \in keys : Cardinality(GroupMembers(arg, key)) >= 3}
       /\ \A i, j \in DOMAIN res : res[i].language = res[j].language => i = j
       /\ \A i \in DOMAIN res :
            res[i].count = Cardinality(GroupMembers(arg, res[i].language))
       /\ \A key \in keys :
            Cardinality(GroupMembers(arg, key)) \in {1, 2} => key \notin reported

\* "Unknown" is reported for repositories with no and with an empty
\* language, and a smaller group of the same list is not
C19_Witness ==
  /\ op = "analyze_by_language"
  /\ pc = "done"
  /\ \E i \in DOMAIN arg : ~arg[i].language.some
  /\ \E i \in DOMAIN arg : arg[i].language.some /\ arg[i].language.v = ""
  /\ \E i \in DOMAIN arg : GroupKey(arg[i]) = "go"
  /\ Len(res) = 1
  /\ res[1].language = "Unknown"
  /\ res[1].count = 3

\* ------------------------------------------------------------------------
\* Termination of fetch_commits
\* ------------------------------------------------------------------------

\* one call of fetch_commits; the place of the return value holds a list
\* from the start
InitFetchCommits ==
  /\ NoAnalysis /\ NoFiles /\ NoSearch
  /\ requests = <<>>
  /\ res = <<>>
  /\ op = "fetch_commits"
  /\ pc = "loop"
  /\ arg \in [repo_full_name : {"a/r10"}, max_commits : (0 - 1)..MaxMaxCommits]
  /\ commits = <<>>
  /\ page = 1
  /\ max_commits = arg.max_commits

NextFetchCommits ==
  \/ FetchCommitsRequest
  \/ FetchCommitsReturn

\* fetch_commits under the scheduling of a sequential program: a request
\* returns or raises, and the statement behind it is executed
SpecFetchCommitsFair ==
  /\ InitFetchCommits
  /\ [][NextFetchCommits]_vars
  /\ WF_vars(FetchCommitsRequest)
  /\ WF_vars(FetchCommitsReturn)

C20_RequestBound ==
  /\ max_commits > 0 => Len(requests) <= max_commits
  /\ max_commits <= 0 => requests = <<>>

C20_IterationStep ==
  (op = "fetch_commits" /\ pc = "loop" /\ requests' # requests) =>
    /\ Len(requests') = Len(requests) + 1
    /\ \/ pc' = "return" /\ commits' = commits /\ page' = page
       \/ pc' = "loop" /\ Len(commits') >= Len(commits) + 1 /\ page' = page + 1

\* C20: fetch_commits terminates whatever the server answers: an iteration
\* of its loop issues one request and then either leaves the loop (empty
\* page, non-success, exception) or adds at least one commit and advances
\* the page number by one; at most max_commits requests are issued, none at
\* all with max_commits <= 0; and every call returns.
C20_FetchCommitsTerminates ==
  /\ [](op = "fetch_commits" => C20_RequestBound)
  /\ [][C20_IterationStep]_vars
  /\ (op = "fetch_commits") ~> (op = "fetch_commits" /\ pc = "done")

\* the bound is reached: every request delivered one commit, up to the last
C20_Witness ==
  /\ op = "fetch_commits"
  /\ pc = "done"
  /\ max_commits >= 2
  /\ Len(requests) = max_commits
  /\ \A i \in DOMAIN requests : requests[i].status = "ok" /\ Len(requests[i].data) = 1
====
